---- MODULE Spec2Model ----
(***************************************************************************)
(* Graph snapshot and safe-mutation protocol of the Grasshopper bridge     *)
(* (GHCodeMCP_new.py, GHCodeMCP_old_working.py).                           *)
(*                                                                         *)
(* Three specifications share this module:                                 *)
(*   Spec      the script-component update transaction, one host call per  *)
(*             step (update_script, update_script_with_code_reference);    *)
(*   SpecQuery the filtered / selected object queries with context;        *)
(*   SpecSort  the execution-order sorter (Kahn's algorithm), stepwise.    *)
(* Each specification leaves the variables of the others at their initial  *)
(* values.                                                                 *)
(***************************************************************************)
EXTENDS Integers, Sequences, FiniteSets, TLC

(***************************************************************************)
(* Bounds of the model.                                                    *)
(***************************************************************************)
\* longest param_definitions list a request carries
MaxDefs == 1

(***************************************************************************)
(* Values shared by the update transaction.                                *)
(***************************************************************************)
\* Python None / an absent JSON field
None == "<None>"

\* System.Guid.Empty, the identity of a stale parameter reference
GuidEmpty == "00000000-0000"

\* str.lower() on the strings the model uses
Lower(s) ==
    CASE s = "Code"   -> "code"
      [] s = "CODE"   -> "code"
      [] s = "Input"  -> "input"
      [] s = "Output" -> "output"
      [] OTHER        -> s

\* the Python idiom `a or b` on strings: a unless it is empty or None
OrElse(a, b) == IF a = "" \/ a = None THEN b ELSE a

\* p.NickName or p.Name: the key a parameter is recorded and looked up under
Key(p) == OrElse(p.nick, p.name)

\* a sequence holding the elements of a finite set, in some fixed order
RECURSIVE SeqOfSet(_)
SeqOfSet(S) ==
    IF S = {} THEN <<>>
    ELSE LET x == CHOOSE y \in S : TRUE IN <<x>> \o SeqOfSet(S \ {x})

SeqRange(s) == {s[i] : i \in DOMAIN s}

Max(S) == CHOOSE x \in S : \A y \in S : y <= x

\* a Grasshopper parameter object: identity, Name, NickName, volatile data
Param(id, name, nick) == [id |-> id, name |-> name, nick |-> nick, data |-> None]

(***************************************************************************)
(* create_gh_input_param / create_gh_output_param: the parameter built     *)
(* from a definition dictionary; id is the fresh InstanceGuid.             *)
(***************************************************************************)
create_gh_input_param(param_def, id) ==
    LET name      == IF param_def.name = None THEN "input" ELSE param_def.name
        nick0     == IF param_def.nickName = None THEN name ELSE param_def.nickName
        nick_name == IF nick0 = "" THEN name ELSE nick0
    IN  Param(id, name, nick_name)

create_gh_output_param(param_def, id) ==
    LET name      == IF param_def.name = None THEN "output" ELSE param_def.name
        nick0     == IF param_def.nickName = None THEN name ELSE param_def.nickName
        nick_name == IF nick0 = "" THEN name ELSE nick0
    IN  Param(id, name, nick_name)

\* a param_definitions entry
ParamDef(type, name, nickName) == [type |-> type, name |-> name, nickName |-> nickName]

\* the definitions requests are built from
ParamDefs ==
    { ParamDef("input",  "radius", None),
      ParamDef("input",  "radius", "r"),
      ParamDef("Output", "output", None),
      ParamDef("output", "result", None),
      ParamDef("input",  "Code",   None),
      ParamDef("input",  "code",   "") }

\* every definitions list of at most MaxDefs entries
DefLists == UNION { [1..n -> ParamDefs] : n \in 0..MaxDefs }

\* param_definitions = None (no list given), kept apart from the empty list
NoDefs == <<ParamDef(None, None, None)>>

\* InstanceGuids of the parameters a transaction creates, by definition index
NewGuids == <<"new-1", "new-2", "new-3", "new-4">>

\* identities of the objects the document holds before a transaction
Upstream   == "U"       \* a live parameter wired into an input of the node
Upstream2  == "U2"      \* a second live parameter wired into the same input
Downstream == "D"       \* a live parameter fed by an output of the node


\* InstanceGuids of the node's own parameters before a transaction
InRadius  == "in-radius"
InCode    == "in-code"
OutOutput == "out-output"
OutResult == "out-result"

\* instance_guid strings a request may carry
GuidScript  == "guid-script"     \* the script component of the document
GuidPlain   == "guid-plain"      \* a component without a Code attribute
GuidMissing == "guid-missing"    \* well-formed, names no object
GuidBad     == "not-a-guid"      \* Guid.Parse raises

UpdateScript  == "update_script"
UpdateCodeRef == "update_script_with_code_reference"

VARIABLES
    canvas,     \* gh.Instances.ActiveCanvas is not None
    Enabled,    \* the refresh flag: canvas.Document.Enabled (older variant:
                \* ActiveCanvas.Enabled)
    Input,      \* comp.Params.Input, a sequence of parameters
    Output,     \* comp.Params.Output
    wires,      \* <<source id, recipient id>>: recipient.Sources holds source
    comp,       \* Code, Description, NickName, InputIsPath of the script node
    pc,         \* position of the update procedure running on the UI thread
    cmd,        \* the arguments of the running update
    pre,        \* Input, Output, wires, comp as they were when the update began
    frame,      \* the local variables of the update procedure
    \* --- the document read by the object queries
    doc_wires,  \* <<source, recipient>> wires between parameters of the document
    doc_bad,    \* top-level objects whose descriptor extraction raises
    request,    \* the command under process_command
    response,   \* the envelope process_command returned
    \* --- sort_graph_by_execution_order
    graph,          \* the snapshot: descriptors in key (insertion) order
    in_degree,      \* node id -> number of incoming edges not yet removed
    queue,
    sorted_order,
    ordered_graph,  \* the returned snapshot
    sort_pc,        \* position inside the sorter
    \* --- socket_server_thread and the hand-off to the UI thread
    run_server,     \* sc.sticky["run_server"]
    srv_pc,         \* position of the server thread in its accept loop
    command,        \* command_data of the connection being served
    result_dict,    \* what process_command returned for it
    sent,           \* the responses written to connections, oldest first
    temp_result,    \* sc.sticky["__temp_result"], the result slot
    ui_pc,          \* state of the action posted to the UI thread
    deposited,      \* the result the last UI action put into the slot
    accepted,       \* connections accepted so far
    ui_queue,       \* actions posted to the UI thread that had not run when
                    \* InvokeOnUiThread returned to their wrapper
    slot_by,        \* the connection whose action filled the result slot, 0: none
    popped_by,      \* the same for what the wrapper of this connection popped
    \* --- the main script of the component and the threads it starts
    RunServer,                  \* the component's input toggle at its last run
    server_is_intended_to_run,  \* sc.sticky["server_is_intended_to_run"]
    server_thread_obj,          \* sc.sticky["server_thread_obj"]: a thread, 0: None
    threads         \* thread -> where it is in socket_server_thread, and
                    \* whether it was told to stop

updVars   == <<canvas, Enabled, Input, Output, wires, comp, pc, cmd, pre, frame>>
queryVars == <<doc_wires, doc_bad, request, response>>
sortVars  == <<graph, in_degree, queue, sorted_order, ordered_graph, sort_pc>>
mainVars  == <<RunServer, server_is_intended_to_run, server_thread_obj, threads>>
serverVars == <<run_server, srv_pc, command, result_dict, sent, temp_result, ui_pc,
                deposited, accepted, ui_queue, slot_by, popped_by, mainVars>>
vars      == <<updVars, queryVars, sortVars, serverVars>>

\* p.Sources and p.Recipients of the parameter with identity id
Sources(w, id)    == {x[1] : x \in {y \in w : y[2] = id}}
Recipients(w, id) == {x[2] : x \in {y \in w : y[1] = id}}

\* IGH_Param.AddSource: recipient gains source (no duplicate)
AddSource(w, recipient, source) == w \cup {<<source, recipient>>}

\* Params.RegisterInputParam / RegisterOutputParam: append to the collection
RegisterParam(params, p) == Append(params, p)

\* the collection keeps every parameter
UnregisterNothing(params, ids) == params

\* Params.UnregisterInputParameter / UnregisterOutputParameter: the parameters
\* named in ids leave the collection
UnregisterParams(params, ids) == SelectSeq(params, LAMBDA p : p.id \notin ids)

\* ... and are isolated: their wires are removed
Isolate(w, ids) == {x \in w : x[1] \notin ids /\ x[2] \notin ids}

ParamIds(params) == {params[i].id : i \in DOMAIN params}
ParamKeys(params) == {Key(params[i]) : i \in DOMAIN params}

\* Step 0: nickName -> connected peers, for the parameters that have a key
\* and at least one peer; a later parameter with the same key overwrites
RecordConnections(params, w, is_input) ==
    LET Peers(id) == IF is_input THEN Sources(w, id) ELSE Recipients(w, id)
        hit(key) == {i \in DOMAIN params :
                        /\ Key(params[i]) = key
                        /\ key # ""
                        /\ Peers(params[i].id) # {}}
        keys == {key \in ParamKeys(params) : hit(key) # {}}
    IN  [key \in keys |-> Peers(params[Max(hit(key))].id)]

\* next(p for p in comp.Params.Input if (p.NickName or p.Name).lower() == "code")
FindCodeParam(params) ==
    LET hit == {i \in DOMAIN params : Lower(Key(params[i])) = "code"}
    IN  IF hit = {} THEN None
        ELSE params[CHOOSE i \in hit : \A j \in hit : i <= j].id

\* the placeholder names of the two variants
DummyInName(type)  == IF type = UpdateScript THEN "__dummy_in__"  ELSE "__dummy_in_ref__"
DummyOutName(type) == IF type = UpdateScript THEN "__dummy_out__" ELSE "__dummy_out_ref__"
DummyInGuid  == "dummy-in"
DummyOutGuid == "dummy-out"

\* the locals of _update_script_component_on_ui_thread and of
\* _update_script_with_code_ref_on_ui_thread at function entry
Frame0 ==
    [ old_input_connections  |-> <<>>,
      old_output_connections |-> <<>>,
      connection_restore_log |-> <<>>,
      new_input_params       |-> <<>>,
      new_output_params      |-> <<>>,
      dummy_input            |-> None,
      dummy_output           |-> None,
      code_param_ref         |-> None,
      params_updated         |-> FALSE,
      code_updated           |-> FALSE,
      description_updated    |-> FALSE,
      message_set            |-> FALSE,
      code_ref_mode_set      |-> FALSE,
      file_path_set          |-> FALSE,
      name_updated           |-> FALSE,
      i                      |-> 1,
      froze                  |-> FALSE,
      raised                 |-> {},
      result                 |-> [status |-> "error", result |-> "Update failed (UI thread)."] ]

Cmd0 ==
    [ type |-> None, instance_guid |-> None, param_definitions |-> NoDefs,
      code |-> None, description |-> None, message_to_user |-> None,
      file_path |-> None, name |-> None, force_code_reference |-> FALSE ]

\* the update_script requests of the model
UpdateScriptCmds ==
    { [Cmd0 EXCEPT !.type = UpdateScript, !.instance_guid = GuidScript,
                   !.param_definitions = d, !.code = x[1], !.description = x[1],
                   !.message_to_user = x[2]] :
        d \in DefLists \cup {NoDefs},
        x \in {<<None, None>>, <<"src", None>>, <<None, "hello">>} }

\* the update_script_with_code_reference requests of the model
UpdateCodeRefCmds ==
    { [Cmd0 EXCEPT !.type = UpdateCodeRef, !.instance_guid = GuidScript,
                   !.param_definitions = d, !.file_path = x[1], !.description = x[3],
                   !.name = x[3], !.force_code_reference = x[2]] :
        d \in DefLists \cup {NoDefs},
        x \in {<<None, FALSE, "nm">>, <<"a.py", FALSE, None>>, <<None, TRUE, None>>} }

\* requests whose instance_guid does not name the script component
RejectedCmds ==
    { [Cmd0 EXCEPT !.type = t, !.instance_guid = g, !.param_definitions = <<>>] :
        t \in {UpdateScript, UpdateCodeRef},
        g \in {None, GuidPlain, GuidMissing, GuidBad} }

Cmds == UpdateScriptCmds \cup UpdateCodeRefCmds \cup RejectedCmds

(***************************************************************************)
(* The update transaction: _update_script_component_on_ui_thread and       *)
(* _update_script_with_code_ref_on_ui_thread, one step per host call.      *)
(***************************************************************************)
Snapshot == [Input |-> Input, Output |-> Output, wires |-> wires, comp |-> comp]

\* parameter sets and wiring a script node can have before a transaction
InitInputs ==
    { <<>>,
      <<Param(InRadius, "radius", "radius")>>,
      <<[Param(InCode, "code", "code") EXCEPT !.data = "old.py"],
        Param(InRadius, "radius", "radius")>> }

InitOutputs ==
    { <<Param(OutOutput, "output", "output")>>,
      <<Param(OutResult, "result", "result")>> }

InitWires(ins, outs) ==
    { {<<s, InRadius>> : s \in S} \cup {<<o, Downstream>> : o \in ParamIds(outs)} :
        S \in IF InRadius \in ParamIds(ins)
              THEN {{Upstream}, {Upstream, Upstream2, GuidEmpty}}
              ELSE {{}} }

UpdInit ==
    /\ canvas \in BOOLEAN
    /\ Enabled = TRUE
    /\ Input \in InitInputs
    /\ Output \in InitOutputs
    /\ wires \in InitWires(Input, Output)
    /\ comp = [Code |-> "old", Description |-> "old", NickName |-> "old",
               InputIsPath |-> (InCode \in ParamIds(Input))]
    /\ pc = "idle"
    /\ cmd = Cmd0
    /\ pre = Snapshot
    /\ frame = Frame0

\* a line of connection_restore_log: what it reports, about which nickName
\* and which peer
LogLine(tag, key, peer) == [tag |-> tag, key |-> key, peer |-> peer]

Log(f, tag) == [f EXCEPT !.connection_restore_log = Append(@, LogLine(tag, "", ""))]

\* whatever the document finds for the id passes
IsAnyComponent(instance_guid) == instance_guid \in {GuidScript, GuidPlain}

\* lines 555 and 778: the object found has a Code attribute
IsScriptComponent(instance_guid) == instance_guid = GuidScript

\* lines 1199-1204 and 1221-1226, 544-558 and 766-782: the checks that
\* return before any mutation
Begin ==
    /\ pc = "idle"
    /\ \E c \in Cmds :
        /\ cmd' = c
        /\ pre' = Snapshot
        /\ IF c.instance_guid = None
           THEN /\ pc' = "done"
                /\ frame' = [Frame0 EXCEPT !.result =
                      [status |-> "error", result |-> "Missing 'instance_guid'"]]
           ELSE IF c.instance_guid = GuidBad
           THEN /\ pc' = "done"
                /\ frame' = [Frame0 EXCEPT !.result =
                      [status |-> "error", result |-> "Invalid instance GUID format"]]
           ELSE IF c.instance_guid = GuidMissing
           THEN /\ pc' = "done"
                /\ frame' = [Frame0 EXCEPT !.result =
                      [status |-> "error", result |-> "not found"]]
           ELSE IF ~IsScriptComponent(c.instance_guid)
           THEN /\ pc' = "done"
                /\ frame' = [Frame0 EXCEPT !.result =
                      [status |-> "error", result |-> "not a script component"]]
           ELSE /\ pc' = "record"
                /\ frame' = IF c.type = UpdateCodeRef
                            THEN Log(Frame0, "Code Ref Update Log:")
                            ELSE Frame0
    /\ UNCHANGED <<canvas, Enabled, Input, Output, wires, comp>>
    /\ UNCHANGED <<queryVars, sortVars, serverVars>>

\* Step 0, lines 565-581 and 789-803: record the existing connections; if
\* reading them raises, the record is emptied and the update goes on
Record ==
    /\ pc = "record"
    /\ \/ frame' = Log([frame EXCEPT
              !.old_input_connections =
                  RecordConnections(Input, wires, TRUE),
              !.old_output_connections =
                  RecordConnections(Output, wires, FALSE)],
              "Recorded connection sets")
       \/ frame' = Log([frame EXCEPT !.old_input_connections = <<>>,
                                     !.old_output_connections = <<>>],
                       "Warning: Error recording connections")
    /\ pc' = "freeze"
    /\ UNCHANGED <<canvas, Enabled, Input, Output, wires, comp, cmd, pre>>
    /\ UNCHANGED <<queryVars, sortVars, serverVars>>

\* Freeze without the assignment: the canvas is left enabled
FreezeNoDisable ==
    /\ pc = "freeze"
    /\ Enabled' = Enabled
    /\ frame' = [frame EXCEPT !.froze = canvas]
    /\ pc' = IF cmd.type = UpdateCodeRef THEN "code_ref_mode" ELSE "update_params"
    /\ UNCHANGED <<canvas, Input, Output, wires, comp, cmd, pre>>
    /\ UNCHANGED <<queryVars, sortVars, serverVars>>

\* lines 588-589 and 811-812: if canvas: canvas.Document.Enabled = False
Freeze ==
    /\ pc = "freeze"
    /\ Enabled' = IF canvas THEN FALSE ELSE Enabled
    /\ frame' = [frame EXCEPT !.froze = canvas]
    /\ pc' = IF cmd.type = UpdateCodeRef THEN "code_ref_mode" ELSE "update_params"
    /\ UNCHANGED <<canvas, Input, Output, wires, comp, cmd, pre>>
    /\ UNCHANGED <<queryVars, sortVars, serverVars>>

\* Step 1 of the file-reference variant, lines 819-853: find the `code`
\* input; when forced or given a path, switch InputIsPath on and construct
\* the `code` input if there is none (a failed construction is logged)
EnsureCodeRefMode ==
    /\ pc = "code_ref_mode"
    /\ LET ref0   == FindCodeParam(Input)
           need   == cmd.force_code_reference \/ cmd.file_path # None
           setIt  == need /\ ~comp.InputIsPath
           f1     == [frame EXCEPT !.code_param_ref = ref0,
                                   !.code_ref_mode_set = setIt]
           f2     == IF setIt THEN Log(f1, "Setting InputIsPath = True") ELSE f1
       IN  /\ comp' = [comp EXCEPT !.InputIsPath = IF need THEN TRUE ELSE @]
           /\ IF need /\ ref0 = None
              THEN \/ /\ Input' = RegisterParam(Input, Param("code-new", "code", "code"))
                      /\ frame' = Log([Log(f2, "'code' param not found, attempting creation.")
                                         EXCEPT !.code_param_ref = "code-new"],
                                      "Registered new 'code' param.")
                   \/ /\ Input' = Input
                      /\ frame' = Log(Log(f2, "'code' param not found, attempting creation."),
                                      "Error creating 'code' param")
                   \/ /\ Input' = Input
                      /\ frame' = Log(Log(f2, "'code' param not found, attempting creation."),
                                      "Warning: Component cannot construct 'code' param automatically.")
              ELSE /\ Input' = Input
                   /\ frame' = f2
    /\ pc' = "update_params"
    /\ UNCHANGED <<canvas, Enabled, Output, wires, cmd, pre>>
    /\ UNCHANGED <<queryVars, sortVars, serverVars>>

\* lines 597 and 856: param_definitions is None, no parameter work
SkipParams ==
    /\ pc = "update_params"
    /\ cmd.param_definitions = NoDefs
    /\ pc' = "restore"
    /\ UNCHANGED <<canvas, Enabled, Input, Output, wires, comp, cmd, pre, frame>>
    /\ UNCHANGED <<queryVars, sortVars, serverVars>>

\* lines 602-606 and 861-865: create and register the placeholder input
RegisterDummyInput ==
    /\ pc = "update_params"
    /\ cmd.param_definitions # NoDefs
    /\ LET name == DummyInName(cmd.type)
       IN  Input' = RegisterParam(Input,
                        create_gh_input_param(ParamDef("input", name, name), DummyInGuid))
    /\ frame' = [frame EXCEPT !.dummy_input = DummyInGuid]
    /\ pc' = "dummy_out"
    /\ UNCHANGED <<canvas, Enabled, Output, wires, comp, cmd, pre>>
    /\ UNCHANGED <<queryVars, sortVars, serverVars>>

\* lines 605-607 and 864-866: create and register the placeholder output
RegisterDummyOutput ==
    /\ pc = "dummy_out"
    /\ LET name == DummyOutName(cmd.type)
       IN  Output' = RegisterParam(Output,
                        create_gh_output_param(ParamDef("output", name, name), DummyOutGuid))
    /\ frame' = [frame EXCEPT !.dummy_output = DummyOutGuid]
    /\ pc' = "remove_old"
    /\ UNCHANGED <<canvas, Enabled, Input, wires, comp, cmd, pre>>
    /\ UNCHANGED <<queryVars, sortVars, serverVars>>

\* every input is listed for removal
EveryInput(params, dummy_input, code_param_guid) == ParamIds(params)

\* lines 610 and 876: the inputs to unregister are those that are neither
\* the placeholder nor the preserved `code` input
InputsToRemove(params, dummy_input, code_param_guid) ==
    ParamIds(params) \ {dummy_input, code_param_guid}

\* lines 609-613 and 868-879: unregister every parameter but the placeholders
\* (and, in the file-reference variant, but the `code` input)
RemoveOld ==
    /\ pc = "remove_old"
    /\ LET ref  == IF cmd.type = UpdateCodeRef
                   THEN IF frame.code_param_ref = None
                        THEN FindCodeParam(Input) ELSE frame.code_param_ref
                   ELSE frame.code_param_ref
           code_param_guid == IF cmd.type = UpdateCodeRef THEN ref ELSE None
           inputs_to_remove  == InputsToRemove(Input, frame.dummy_input, code_param_guid)
           outputs_to_remove == ParamIds(Output) \ {frame.dummy_output}
       IN  /\ Input'  = UnregisterParams(Input, inputs_to_remove)
           /\ Output' = UnregisterParams(Output, outputs_to_remove)
           /\ wires'  = Isolate(wires, inputs_to_remove \cup outputs_to_remove)
           /\ frame'  = [frame EXCEPT !.code_param_ref = ref]
    /\ pc' = IF Len(cmd.param_definitions) = 0 THEN "ensure_output" ELSE "add_new"
    /\ UNCHANGED <<canvas, Enabled, comp, cmd, pre>>
    /\ UNCHANGED <<queryVars, sortVars, serverVars>>

\* p_def.get("nickName", p_def.get("name", "")).lower(), line 886
ParamIdOf(p_def) ==
    Lower(IF p_def.nickName # None THEN p_def.nickName
          ELSE IF p_def.name # None THEN p_def.name ELSE "")

\* lines 885-889: the file-reference variant skips a definition it takes to
\* be the `code` parameter
SkipsCodeDef(type, p_def) == type = UpdateCodeRef /\ ParamIdOf(p_def) = "code"

\* lines 617-626 and 883-898: one pass of the loop over param_definitions
AddNew ==
    /\ pc = "add_new"
    /\ LET i          == frame.i
           p_def      == cmd.param_definitions[i]
           param_type == Lower(p_def.type)
           f          == [frame EXCEPT !.i = i + 1]
       IN  IF SkipsCodeDef(cmd.type, p_def)
           THEN /\ frame' = Log(f, "Skipped adding explicit 'code' param from definition.")
                /\ UNCHANGED <<Input, Output>>
           ELSE IF param_type = "input"
           THEN LET new_param == create_gh_input_param(p_def, NewGuids[i])
                IN  /\ Input' = RegisterParam(Input, new_param)
                    /\ frame' = [f EXCEPT !.new_input_params =
                                     (Key(new_param) :> new_param.id) @@ @]
                    /\ UNCHANGED Output
           ELSE IF param_type = "output"
           THEN LET new_param == create_gh_output_param(p_def, NewGuids[i])
                IN  /\ Output' = RegisterParam(Output, new_param)
                    /\ frame' = [f EXCEPT !.new_output_params =
                                     (Key(new_param) :> new_param.id) @@ @]
                    /\ UNCHANGED Input
           ELSE /\ frame' = f
                /\ UNCHANGED <<Input, Output>>
    /\ pc' = IF frame.i = Len(cmd.param_definitions) THEN "ensure_output" ELSE "add_new"
    /\ UNCHANGED <<canvas, Enabled, wires, comp, cmd, pre>>
    /\ UNCHANGED <<queryVars, sortVars, serverVars>>

\* lines 630 and 902: the test that decides whether the default `output`
\* parameter is synthesized
NeedsDefaultOutput(type, outs) ==
    /\ "output" \notin ParamKeys(outs)
    /\ DummyOutName(type) \notin ParamKeys(outs)

\* lines 628-634 and 900-906: ensure the default output `output`
EnsureDefaultOutput ==
    /\ pc = "ensure_output"
    /\ IF NeedsDefaultOutput(cmd.type, Output)
       THEN LET default_out ==
                    create_gh_output_param(ParamDef("output", "output", "output"),
                                           "default-out")
            IN  /\ Output' = RegisterParam(Output, default_out)
                /\ frame' = [frame EXCEPT !.new_output_params =
                                 (Key(default_out) :> default_out.id) @@ @]
       ELSE UNCHANGED <<Output, frame>>
    /\ pc' = "remove_dummies"
    /\ UNCHANGED <<canvas, Enabled, Input, wires, comp, cmd, pre>>
    /\ UNCHANGED <<queryVars, sortVars, serverVars>>

\* lines 636-640 and 908-912: unregister the placeholders; params_updated
RemoveDummies ==
    /\ pc = "remove_dummies"
    /\ Input'  = UnregisterParams(Input, {frame.dummy_input})
    /\ Output' = UnregisterParams(Output, {frame.dummy_output})
    /\ wires'  = Isolate(wires, {frame.dummy_input, frame.dummy_output})
    /\ frame'  = [frame EXCEPT !.params_updated = TRUE]
    /\ pc' = "params_changed"
    /\ UNCHANGED <<canvas, Enabled, comp, cmd, pre>>
    /\ UNCHANGED <<queryVars, sortVars, serverVars>>

\* comp.ClearData(): the volatile data of the outputs is dropped
ClearData(outs) == [j \in DOMAIN outs |-> [outs[j] EXCEPT !.data = None]]

\* lines 641-642 and 913-914: OnParametersChanged(), ClearData()
ParametersChanged ==
    /\ pc = "params_changed"
    /\ Output' = ClearData(Output)
    /\ pc' = "restore"
    /\ UNCHANGED <<canvas, Enabled, Input, wires, comp, cmd, pre, frame>>
    /\ UNCHANGED <<queryVars, sortVars, serverVars>>

\* positions inside the `try` of the parameter stage (lines 600-642, 859-914)
ParamStagePcs ==
    {"update_params", "dummy_out", "remove_old", "add_new", "ensure_output",
     "remove_dummies", "params_changed"}

\* a host call of the parameter stage raises before it takes effect
RaiseInParams ==
    /\ pc \in ParamStagePcs
    /\ cmd.param_definitions # NoDefs
    /\ frame' = [frame EXCEPT !.raised = @ \cup {pc}]
    /\ pc' = "param_except"
    /\ UNCHANGED <<canvas, Enabled, Input, Output, wires, comp, cmd, pre>>
    /\ UNCHANGED <<queryVars, sortVars, serverVars>>

\* the handler goes on to the next step
NeverReraises(type) == FALSE

\* line 650 against line 922: the handler of update_script ends with raise,
\* that of the file-reference variant does not
Reraises(type) == type = UpdateScript

\* the handler unregisters nothing
NothingCleanedUp(how, dummy_input, dummy_output) == {}

\* lines 646-649 and 918-921: the placeholders the cleanup unregisters: both,
\* none when the first Unregister call raises, the input alone when the
\* second does
CleanedUp(how, dummy_input, dummy_output) ==
    CASE how = "ok"  -> {dummy_input, dummy_output}
      [] how = "in"  -> {}
      [] how = "out" -> {dummy_input}

\* lines 644-650 and 916-922: the handler of the parameter stage. The
\* placeholders are unregistered best-effort (an error there is swallowed:
\* how == "in" / "out" is the Unregister call that raises); update_script
\* re-raises, the file-reference variant goes on with the other updates
ParamExcept ==
    /\ pc = "param_except"
    /\ \E how \in {"ok", "in", "out"} :
        /\ how = "in"  => frame.dummy_input \in ParamIds(Input)
        /\ how = "out" => frame.dummy_output \in ParamIds(Output)
        /\ LET gone == CleanedUp(how, frame.dummy_input, frame.dummy_output)
               f    == [frame EXCEPT !.raised =
                          @ \cup (IF how = "ok" THEN {} ELSE {"cleanup"})]
           IN  /\ Input'  = UnregisterParams(Input, gone)
               /\ Output' = UnregisterParams(Output, gone)
               /\ wires'  = Isolate(wires, gone \ {None})
               /\ IF Reraises(cmd.type)
                  THEN /\ frame' = [f EXCEPT !.result =
                             [status |-> "error", result |-> "Error updating parameters"]]
                       /\ pc' = "except"
                  ELSE /\ frame' =
                             Log(f, "Error updating parameters during code ref update")
                       /\ pc' = "restore"
    /\ UNCHANGED <<canvas, Enabled, comp, cmd, pre>>
    /\ UNCHANGED <<queryVars, sortVars, serverVars>>

\* Attempts with the liveness test inverted (== Guid.Empty)
AttemptsStaleOnly(new_params, old_connections) ==
    UNION { {<<nick, peer>> : peer \in old_connections[nick] \cap {GuidEmpty}} :
              nick \in DOMAIN new_params \cap DOMAIN old_connections }

\* every new parameter is offered every recorded peer, whatever its key
AttemptsAnyKey(new_params, old_connections) ==
    {<<nick, peer>> : nick \in DOMAIN new_params,
                      peer \in UNION {old_connections[k] : k \in DOMAIN old_connections}
                                 \ {GuidEmpty}}

\* the connect attempts of Restore: <<nickName, peer>> for every new
\* parameter whose nickName is a key of the record and every recorded peer
\* that is a live parameter (InstanceGuid != Guid.Empty)
Attempts(new_params, old_connections) ==
    UNION { {<<nick, peer>> : peer \in old_connections[nick] \ {GuidEmpty}} :
              nick \in DOMAIN new_params \cap DOMAIN old_connections }

\* a Restore that appends nothing
NoRestoreLines(role, attempts, failed) == {}

\* the lines Restore appends for one role: an error line per failed attempt,
\* a "Restored" line per nickName with at least one successful attempt
RestoreLines(role, attempts, failed) ==
    {LogLine("Error connecting " \o role, a[1], a[2]) : a \in failed}
      \cup {LogLine("Restored " \o role, a[1], "") : a \in attempts \ failed}

\* Step 2 / Step 3, lines 652-683 and 924-946: reconnect the new parameters
\* to the recorded peers; an AddSource that raises is logged and skipped
RestoreConnections ==
    /\ pc = "restore"
    /\ IF frame.params_updated
       THEN LET ins  == Attempts(frame.new_input_params, frame.old_input_connections)
                outs == Attempts(frame.new_output_params, frame.old_output_connections)
            IN  \E failIn \in SUBSET ins, failOut \in SUBSET outs :
                  /\ wires' = wires
                       \cup {<<a[2], frame.new_input_params[a[1]]>> : a \in ins \ failIn}
                       \cup {<<frame.new_output_params[a[1]], a[2]>> : a \in outs \ failOut}
                  /\ frame' = [frame EXCEPT !.connection_restore_log =
                       @ \o <<LogLine("Attempting connection restoration...", "", "")>>
                         \o SeqOfSet(RestoreLines("Input", ins, failIn))
                         \o SeqOfSet(RestoreLines("Output", outs, failOut))]
       ELSE UNCHANGED <<wires, frame>>
    /\ pc' = "fields"
    /\ UNCHANGED <<canvas, Enabled, Input, Output, comp, cmd, pre>>
    /\ UNCHANGED <<queryVars, sortVars, serverVars>>

\* the parameters with p's data replaced where Hit holds
SetData(params, Hit(_), value) ==
    [j \in DOMAIN params |->
        IF Hit(params[j]) THEN [params[j] EXCEPT !.data = value] ELSE params[j]]

\* next(p for p in comp.Params.Output if (p.NickName or p.Name) == "output")
FindOutputParam(outs) ==
    LET hit == {j \in DOMAIN outs : Key(outs[j]) = "output"}
    IN  IF hit = {} THEN None
        ELSE outs[CHOOSE j \in hit : \A l \in hit : j <= l].id

\* Step 3 of update_script, lines 685-702: code, description, message
UpdateCodeDescMessage ==
    /\ pc = "fields"
    /\ cmd.type = UpdateScript
    /\ comp' = [comp EXCEPT
                  !.Code = IF cmd.code # None THEN cmd.code ELSE @,
                  !.Description = IF cmd.description # None THEN cmd.description ELSE @]
    /\ LET output_param == FindOutputParam(Output)
           f == [frame EXCEPT !.code_updated = cmd.code # None,
                              !.description_updated = cmd.description # None]
       IN  IF cmd.message_to_user = None
           THEN /\ frame' = f
                /\ Output' = Output
           ELSE IF output_param # None
           THEN /\ frame' = [f EXCEPT !.message_set = TRUE]
                /\ Output' = SetData(Output, LAMBDA p : p.id = output_param,
                                     cmd.message_to_user)
           ELSE /\ frame' = Log(f, "Warning: 'output' parameter not found to set message.")
                /\ Output' = Output
    /\ pc' = "finalize"
    /\ UNCHANGED <<canvas, Enabled, Input, wires, cmd, pre>>
    /\ UNCHANGED <<queryVars, sortVars, serverVars>>

\* Step 4 of the file-reference variant, lines 949-955: description, name
UpdateDescName ==
    /\ pc = "fields"
    /\ cmd.type = UpdateCodeRef
    /\ comp' = [comp EXCEPT
                  !.Description = IF cmd.description # None THEN cmd.description ELSE @,
                  !.NickName = IF cmd.name # None THEN cmd.name ELSE @]
    /\ frame' = [frame EXCEPT !.description_updated = cmd.description # None,
                              !.name_updated = cmd.name # None]
    /\ pc' = "set_path"
    /\ UNCHANGED <<canvas, Enabled, Input, Output, wires, cmd, pre>>
    /\ UNCHANGED <<queryVars, sortVars, serverVars>>

\* the data of every parameter is left as it is
PushNothing(params, ref, file_path) == params

\* lines 978-979: ClearData and AddVolatileData on the `code` input: its sole
\* data item is file_path
PushPath(params, ref, file_path) ==
    [j \in DOMAIN params |->
        IF params[j].id = ref THEN [params[j] EXCEPT !.data = file_path] ELSE params[j]]

\* Step 5, lines 957-982: push file_path into the `code` input; an error
\* while setting it is logged and file_path_set stays false
SetFilePath ==
    /\ pc = "set_path"
    /\ LET ref == IF frame.code_param_ref = None
                  THEN FindCodeParam(Input) ELSE frame.code_param_ref
           f   == [frame EXCEPT !.code_param_ref =
                      IF cmd.file_path # None THEN ref ELSE @]
       IN  IF cmd.file_path = None
           THEN /\ frame' = f
                /\ UNCHANGED <<Input, comp>>
           ELSE IF ref = None
           THEN /\ frame' = Log(f, "Warning: 'code' param not found for final path setting.")
                /\ UNCHANGED <<Input, comp>>
           ELSE \/ /\ comp' = [comp EXCEPT !.InputIsPath = TRUE]
                   /\ Input' = PushPath(Input, ref, cmd.file_path)
                   /\ frame' = [Log(f, "Setting VolatileData for 'code' param")
                                  EXCEPT !.file_path_set = TRUE]
                \/ /\ frame' = Log(f, "Error setting final file path")
                   /\ UNCHANGED <<Input, comp>>
    /\ pc' = "finalize"
    /\ UNCHANGED <<canvas, Enabled, Output, wires, cmd, pre>>
    /\ UNCHANGED <<queryVars, sortVars, serverVars>>

\* Step 4 / Step 6, lines 704-718 and 985-1003: expire layout and solution,
\* build the success result
Finalize ==
    /\ pc = "finalize"
    /\ frame' = [frame EXCEPT !.result = [status |-> "success", result |-> "updated"]]
    /\ pc' = "finally"
    /\ UNCHANGED <<canvas, Enabled, Input, Output, wires, comp, cmd, pre>>
    /\ UNCHANGED <<queryVars, sortVars, serverVars>>

\* positions of the outer `try` whose host calls can raise
OuterPcs == {"code_ref_mode", "fields", "finalize"}

\* a host call outside the parameter stage raises before it takes effect
RaiseOuter ==
    /\ pc \in OuterPcs
    /\ frame' = [frame EXCEPT !.raised = @ \cup {pc}]
    /\ pc' = "except"
    /\ UNCHANGED <<canvas, Enabled, Input, Output, wires, comp, cmd, pre>>
    /\ UNCHANGED <<queryVars, sortVars, serverVars>>

\* lines 720-727 and 1005-1010: the catch-all handler
Except ==
    /\ pc = "except"
    /\ frame' = [frame EXCEPT !.result =
                    [status |-> "error", result |-> "Error during component update"]]
    /\ pc' = "finally"
    /\ UNCHANGED <<canvas, Enabled, Input, Output, wires, comp, cmd, pre>>
    /\ UNCHANGED <<queryVars, sortVars, serverVars>>

\* the cleanup without the re-enabling assignment
FinallyNoEnable ==
    /\ pc = "finally"
    /\ Enabled' = Enabled
    /\ pc' = "done"
    /\ UNCHANGED <<canvas, Input, Output, wires, comp, cmd, pre, frame>>
    /\ UNCHANGED <<queryVars, sortVars, serverVars>>

\* lines 729-735 and 1012-1020: finally: if canvas: canvas.Document.Enabled = True
Finally ==
    /\ pc = "finally"
    /\ Enabled' = IF canvas THEN TRUE ELSE Enabled
    /\ pc' = "done"
    /\ UNCHANGED <<canvas, Input, Output, wires, comp, cmd, pre, frame>>
    /\ UNCHANGED <<queryVars, sortVars, serverVars>>

(***************************************************************************)
(* update_script_with_code_reference of GHCodeMCP_old_working.py, lines    *)
(* 716-859, one step per block of the function.  The refresh flag it       *)
(* clears and sets again is ActiveCanvas.Enabled.                          *)
(***************************************************************************)
\* create_input_param / create_output_param of the older variant: NickName
\* and Name are both the name of the definition
create_input_param(name, id)  == Param(id, name, name)
create_output_param(name, id) == Param(id, name, name)

\* the requests the older variant is run on
OldCodeRefCmds ==
    UpdateCodeRefCmds \cup
    { [Cmd0 EXCEPT !.type = UpdateCodeRef, !.instance_guid = g,
                   !.param_definitions = d, !.file_path = "a.py",
                   !.name = "nm", !.force_code_reference = TRUE] :
        d \in DefLists \cup {NoDefs}, g \in {GuidScript, GuidMissing} }

\* lines 716-730: find the component, None is answered at once; freeze the
\* canvas, which raises out of the function when there is no active canvas
OldBegin ==
    /\ pc = "idle"
    /\ \E c \in OldCodeRefCmds :
        /\ cmd' = c
        /\ pre' = Snapshot
        /\ IF c.instance_guid = GuidMissing
           THEN /\ pc' = "old_done"
                /\ frame' = [Frame0 EXCEPT !.result =
                      [status |-> "error", result |-> "Component not found"]]
                /\ Enabled' = Enabled
           ELSE IF ~canvas
           THEN /\ pc' = "old_done"
                /\ frame' = [Frame0 EXCEPT !.raised = {"old_freeze"},
                                           !.result = [status |-> "error",
                                                       result |-> "AttributeError"]]
                /\ Enabled' = Enabled
           ELSE /\ pc' = "old_force"
                /\ frame' = [Frame0 EXCEPT !.froze = TRUE, !.result =
                      [status |-> "error", result |-> "Unknown error"]]
                /\ Enabled' = FALSE
    /\ UNCHANGED <<canvas, Input, Output, wires, comp>>
    /\ UNCHANGED <<queryVars, sortVars, serverVars>>

\* lines 733-781: when forced, replace the code, switch InputIsPath on,
\* replace every input whose Name is `code` by a freshly constructed one and
\* push file_path into it
OldForceCodeReference ==
    /\ pc = "old_force"
    /\ IF cmd.force_code_reference
       THEN LET gone == {Input[j].id : j \in {l \in DOMAIN Input : Input[l].name = "code"}}
                code_param == [Param("code-new", "code", "code") EXCEPT
                                  !.data = cmd.file_path]
            IN  /\ comp' = [comp EXCEPT
                      !.Code = "# This component is set to use external code",
                      !.InputIsPath = TRUE]
                /\ Input' = RegisterParam(UnregisterParams(Input, gone), code_param)
                /\ Output' = ClearData(Output)
                /\ wires' = Isolate(wires, gone)
       ELSE UNCHANGED <<comp, Input, Output, wires>>
    /\ pc' = "old_params"
    /\ UNCHANGED <<canvas, Enabled, cmd, pre, frame>>
    /\ UNCHANGED <<queryVars, sortVars, serverVars>>

\* the parameters lines 802-819 create for the definitions of one type, in
\* the order of the list; an input named `code` and a definition without a
\* name are passed over
OldAdded(defs, type) ==
    LET idx == {i \in DOMAIN defs :
                   /\ Lower(defs[i].type) = type
                   /\ defs[i].name # None
                   /\ type = "input" => Lower(defs[i].name) # "code"}
        nth(k) == CHOOSE i \in idx : Cardinality({j \in idx : j < i}) = k - 1
    IN  [k \in 1..Cardinality(idx) |->
            IF type = "input" THEN create_input_param(defs[nth(k)].name, NewGuids[nth(k)])
            ELSE create_output_param(defs[nth(k)].name, NewGuids[nth(k)])]

\* lines 822-825: no output definition is named `output`
OldNeedsDefaultOutput(defs) ==
    \A i \in DOMAIN defs :
        Lower(defs[i].type) = "output" => Lower(defs[i].name) # "output"

\* lines 783-829: behind two placeholders, unregister every parameter but
\* the inputs named `code`, register the new ones and the default output,
\* unregister the placeholders
OldUpdateParams ==
    /\ pc = "old_params"
    /\ IF cmd.param_definitions # NoDefs
       THEN LET keep == {Input[j].id : j \in {l \in DOMAIN Input : Input[l].name = "code"}}
                gone == (ParamIds(Input) \ keep) \cup ParamIds(Output)
                outs == OldAdded(cmd.param_definitions, "output")
            IN  /\ Input' = UnregisterParams(Input, gone)
                               \o OldAdded(cmd.param_definitions, "input")
                /\ Output' = IF OldNeedsDefaultOutput(cmd.param_definitions)
                              THEN RegisterParam(outs,
                                       create_output_param("output", "default-out"))
                              ELSE outs
                /\ wires' = Isolate(wires, gone)
       ELSE UNCHANGED <<Input, Output, wires>>
    /\ pc' = "old_fields"
    /\ UNCHANGED <<canvas, Enabled, comp, cmd, pre, frame>>
    /\ UNCHANGED <<queryVars, sortVars, serverVars>>

\* lines 831-836: description and name
OldDescName ==
    /\ pc = "old_fields"
    /\ comp' = [comp EXCEPT
                  !.Description = IF cmd.description # None THEN cmd.description ELSE @,
                  !.NickName = IF cmd.name # None THEN cmd.name ELSE @]
    /\ pc' = "old_final"
    /\ UNCHANGED <<canvas, Enabled, Input, Output, wires, cmd, pre, frame>>
    /\ UNCHANGED <<queryVars, sortVars, serverVars>>

\* lines 838-851: ClearData, expire layout and solution, the success result
OldFinalize ==
    /\ pc = "old_final"
    /\ Output' = ClearData(Output)
    /\ frame' = [frame EXCEPT
                    !.file_path_set = cmd.file_path # None,
                    !.description_updated = cmd.description # None,
                    !.name_updated = cmd.name # None,
                    !.result = [status |-> "success", result |-> "updated"]]
    /\ pc' = "old_finally"
    /\ UNCHANGED <<canvas, Enabled, Input, wires, comp, cmd, pre>>
    /\ UNCHANGED <<queryVars, sortVars, serverVars>>

\* lines 852-853: a host call inside the `try` raises before it takes effect
OldRaise ==
    /\ pc \in {"old_force", "old_params", "old_fields", "old_final"}
    /\ frame' = [frame EXCEPT !.raised = @ \cup {pc},
                              !.result = [status |-> "error", result |-> "str(e)"]]
    /\ pc' = "old_finally"
    /\ UNCHANGED <<canvas, Enabled, Input, Output, wires, comp, cmd, pre>>
    /\ UNCHANGED <<queryVars, sortVars, serverVars>>

\* lines 854-859: finally, then return result
OldFinally ==
    /\ pc = "old_finally"
    /\ Enabled' = TRUE
    /\ pc' = "old_done"
    /\ UNCHANGED <<canvas, Input, Output, wires, comp, cmd, pre, frame>>
    /\ UNCHANGED <<queryVars, sortVars, serverVars>>

UpdNext ==
    \/ Begin
    \/ Record
    \/ Freeze
    \/ EnsureCodeRefMode
    \/ SkipParams
    \/ RegisterDummyInput
    \/ RegisterDummyOutput
    \/ RemoveOld
    \/ AddNew
    \/ EnsureDefaultOutput
    \/ RemoveDummies
    \/ ParametersChanged
    \/ RaiseInParams
    \/ ParamExcept
    \/ RestoreConnections
    \/ UpdateCodeDescMessage
    \/ UpdateDescName
    \/ SetFilePath
    \/ Finalize
    \/ RaiseOuter
    \/ Except
    \/ Finally
    \/ OldBegin
    \/ OldForceCodeReference
    \/ OldUpdateParams
    \/ OldDescName
    \/ OldFinalize
    \/ OldRaise
    \/ OldFinally


(***************************************************************************)
(* Properties of the update transaction.                                   *)
(***************************************************************************)
Returned   == pc = "done"
Succeeded  == Returned /\ frame.result.status = "success"
LogTags    == {frame.connection_restore_log[j].tag : j \in DOMAIN frame.connection_restore_log}
LogLines   == SeqRange(frame.connection_restore_log)

\* C1: an execution of update_script or update_script_with_code_reference
\* that switched the refresh flag off has the flag on again when it returns,
\* whether every step succeeded or a step raised.
C1_FlagRestoredOnReturn == (Returned /\ frame.froze) => Enabled

\* an update froze the canvas, a step raised, and it has returned
C1_Witness ==
    /\ Returned
    /\ frame.froze
    /\ frame.raised # {}
    /\ frame.result.status = "error"
    /\ Enabled

\* the node holds one of the two placeholder parameters
HoldsPlaceholder ==
    \/ DummyInGuid \in ParamIds(Input)
    \/ DummyOutGuid \in ParamIds(Output)

\* the parameter stage has begun to replace the parameter set and has not
\* completed it
PartiallyInstalled == frame.dummy_input # None /\ ~frame.params_updated

\* the step changes the node's parameters or their wires
ParamSetChanges == Input' # Input \/ Output' # Output \/ wires' # wires

\* C2 as stated: no reachable state has the flag on while the node holds a
\* placeholder or a partially installed parameter set (on an active canvas).
C2_NeverVisiblePartial ==
    (canvas /\ Enabled) => ~(HoldsPlaceholder \/ PartiallyInstalled)

\* C2 (amended): on an active canvas, every change to the node's parameter
\* set or wires happens while the refresh flag is off, and the flag is on
\* while the node holds a placeholder or a partially installed parameter set
\* only after the update has returned from a parameter stage that raised.
C2_ChangesWhileFrozen ==
    /\ []((canvas /\ Enabled /\ (HoldsPlaceholder \/ PartiallyInstalled))
            => (Returned /\ frame.raised \cap ParamStagePcs # {}))
    /\ [][(canvas /\ ParamSetChanges) => (~Enabled /\ ~Enabled')]_vars

\* the flag is off while the node holds both placeholders and a new parameter
C2_Witness ==
    /\ canvas
    /\ ~Enabled
    /\ DummyInGuid \in ParamIds(Input)
    /\ DummyOutGuid \in ParamIds(Output)
    /\ pc = "ensure_output"
    /\ frame.i > 1

\* the parameters of the collection that the transaction created
NewIn  == {Input[j]  : j \in {l \in DOMAIN Input  : Input[l].id  \notin ParamIds(pre.Input)}}
NewOut == {Output[j] : j \in {l \in DOMAIN Output : Output[l].id \notin ParamIds(pre.Output)}}

\* the update reports success with params_updated true, and neither the
\* recording nor any reconnect raised
CleanReconfigure ==
    /\ Succeeded
    /\ frame.params_updated
    /\ "Warning: Error recording connections" \notin LogTags
    /\ "Error connecting Input" \notin LogTags
    /\ "Error connecting Output" \notin LogTags

\* an input / output of the node before the update, with this key, wired to peer
HadInput(key, peer) ==
    \E j \in DOMAIN pre.Input :
        Key(pre.Input[j]) = key /\ peer \in Sources(pre.wires, pre.Input[j].id)
HadOutput(key, peer) ==
    \E j \in DOMAIN pre.Output :
        Key(pre.Output[j]) = key /\ peer \in Recipients(pre.wires, pre.Output[j].id)

DefsOfType(type) ==
    {d \in SeqRange(cmd.param_definitions) : Lower(d.type) = type}

C4_ReservedOutputSurvives ==
    ( /\ Succeeded
      /\ frame.params_updated
      /\ frame.raised = {}
      /\ ~\E d \in DefsOfType("output") : d.name = "output" )
    => \E j \in DOMAIN Output : Output[j].name = "output" \/ Key(Output[j]) = "output"

\* the inputs a reader of the canvas sees as `code`: by name or by nickname
CodeInputs == {j \in DOMAIN Input :
                 Lower(Input[j].name) = "code" \/ Lower(Key(Input[j])) = "code"}

\* C5: in the file-reference variant a supplied definition named "code" (any
\* letter case) is ignored, and the node's existing `code` input is the same
\* parameter before and after: neither removed nor duplicated, so the node
\* has exactly one input named `code` afterwards.
C5_CodeParamImmunity ==
    ( /\ Succeeded
      /\ cmd.type = UpdateCodeRef
      /\ frame.params_updated
      /\ frame.raised = {}
      /\ InCode \in ParamIds(pre.Input) )
    => /\ InCode \in ParamIds(Input)
       /\ Cardinality(CodeInputs) = 1
       /\ \A p \in NewIn : Lower(p.name) # "code"

\* both placeholders have been registered and neither the normal path nor
\* the cleanup has come to unregister them
Stabilized ==
    \/ pc \in {"remove_old", "add_new", "ensure_output", "remove_dummies"}
    \/ /\ pc = "param_except"
       /\ frame.raised \cap {"remove_old", "add_new", "ensure_output", "remove_dummies"} # {}

\* C21: from the registration of both placeholders until their removal, in
\* every state of Clear and Install, the node has at least one input and at
\* least one output parameter.
C21_NeverWithoutParameters ==
    Stabilized => /\ Len(Input) >= 1
                  /\ Len(Output) >= 1
                  /\ DummyInGuid \in ParamIds(Input)
                  /\ DummyOutGuid \in ParamIds(Output)

\* Clear has removed every old parameter of a node that had inputs: only
\* the placeholders are registered
C21_Witness ==
    /\ pc \in {"add_new", "ensure_output"}
    /\ pre.Input # <<>>
    /\ ParamIds(Input) = {DummyInGuid}
    /\ ParamIds(Output) = {DummyOutGuid}

\* a host call of the parameter stage raised
ParamStageFailed == frame.raised \cap ParamStagePcs # {}

C23_NoPlaceholderOnReturn == Returned => ~HoldsPlaceholder

\* C23 (amended): when a reconfiguration returns, no placeholder parameter
\* is registered on the node unless the parameter stage raised and an
\* Unregister call of its cleanup raised in turn.
C23_PlaceholdersRemovedBestEffort ==
    (Returned /\ HoldsPlaceholder) => (ParamStageFailed /\ "cleanup" \in frame.raised)

\* a registration raised while both placeholders were registered, and the
\* update has returned without them
C23_Witness ==
    /\ Returned
    /\ "add_new" \in frame.raised
    /\ "cleanup" \notin frame.raised
    /\ frame.dummy_input = DummyInGuid
    /\ frame.dummy_output = DummyOutGuid
    /\ ~HoldsPlaceholder

\* Install raised: a host call raised after Clear and before the removal of
\* the placeholders
InstallFailed == frame.raised \cap {"add_new", "ensure_output"} # {}

\* the ids of the parameters Install had registered when it raised
Installed(type) ==
    {NewGuids[j] : j \in {l \in 1..(frame.i - 1) :
        /\ Lower(cmd.param_definitions[l].type) = type
        /\ ~SkipsCodeDef(cmd.type, cmd.param_definitions[l])}}

\* the `code` input the file-reference variant keeps through Clear
PreservedCode ==
    IF cmd.type = UpdateCodeRef THEN {frame.code_param_ref} \ {None} ELSE {}

\* the ids of the parameters the node had before the transaction
OldParams == ParamIds(pre.Input) \cup ParamIds(pre.Output)

\* C24: Clear is not reverted. When Install raised after k definitions had
\* been registered, the parameters of the node on return, the placeholders
\* aside, are those k new ones (and the preserved `code` input of the
\* file-reference variant); no parameter of before is registered again, no
\* wire of a removed parameter is back and no new parameter is wired.
C24_ClearNotReverted ==
    (Returned /\ InstallFailed)
    => /\ ParamIds(Input) \ {DummyInGuid} = Installed("input") \cup PreservedCode
       /\ ParamIds(Output) \ {DummyOutGuid} = Installed("output")
       /\ wires = Isolate(pre.wires, OldParams \ PreservedCode)
       /\ ~frame.params_updated

\* a wired node with a `radius` input is left with the one parameter that
\* had been registered when the stage raised
C24_Witness ==
    /\ Returned
    /\ cmd.type = UpdateScript
    /\ "ensure_output" \in frame.raised
    /\ InRadius \in ParamIds(pre.Input)
    /\ <<Upstream, InRadius>> \in pre.wires
    /\ Installed("input") \cup Installed("output") = {NewGuids[1]}
    /\ ParamIds(Input) \cup ParamIds(Output) = {NewGuids[1]}
    /\ wires = {}

\* the tags of the lines Restore appends
RestoreTags ==
    {"Attempting connection restoration...",
     "Error connecting Input", "Restored Input",
     "Error connecting Output", "Restored Output"}

\* how many lines of the log were appended by Restore
RestoreLineCount ==
    Cardinality({j \in DOMAIN frame.connection_restore_log :
                    frame.connection_restore_log[j].tag \in RestoreTags})

\* <<nickName, peer>> for every recorded peer of a parameter whose nickName
\* a new parameter carries
RecordedPeers(new_params, old_connections) ==
    UNION { {<<nick, peer>> : peer \in old_connections[nick]} :
              nick \in DOMAIN new_params \cap DOMAIN old_connections }

RecordedIn  == RecordedPeers(frame.new_input_params, frame.old_input_connections)
RecordedOut == RecordedPeers(frame.new_output_params, frame.old_output_connections)

RestoreRan == Returned /\ "Attempting connection restoration..." \in LogTags

\* C25 as stated: Restore leaves at least one log line per recorded peer of
\* the matched parameters, whether the peer was connected, failed to connect
\* or was skipped as stale.
C25_LineForEveryPeer ==
    RestoreRan => RestoreLineCount >= Cardinality(RecordedIn) + Cardinality(RecordedOut)

\* C25, amended: after Restore every live recorded peer of a matched
\* parameter is either wired to the new parameter, with one "Restored" line
\* for the nickName, or named by an error line of its own; a stale peer is
\* skipped and no line names it.
C25_RestoreLog ==
    RestoreRan =>
      /\ \A a \in RecordedIn :
            IF a[2] = GuidEmpty
            THEN \A l \in LogLines : l.peer # GuidEmpty
            ELSE \/ LogLine("Error connecting Input", a[1], a[2]) \in LogLines
                 \/ /\ <<a[2], frame.new_input_params[a[1]]>> \in wires
                    /\ LogLine("Restored Input", a[1], "") \in LogLines
      /\ \A a \in RecordedOut :
            IF a[2] = GuidEmpty
            THEN \A l \in LogLines : l.peer # GuidEmpty
            ELSE \/ LogLine("Error connecting Output", a[1], a[2]) \in LogLines
                 \/ /\ <<frame.new_output_params[a[1]], a[2]>> \in wires
                    /\ LogLine("Restored Output", a[1], "") \in LogLines

\* a Restore that connected two live peers of `radius` and skipped a stale
\* one, leaving the header and one "Restored" line
C25_Witness ==
    /\ RestoreRan
    /\ RecordedIn = {<<"radius", Upstream>>, <<"radius", Upstream2>>,
                     <<"radius", GuidEmpty>>}
    /\ {Upstream, Upstream2} \subseteq Sources(wires, frame.new_input_params["radius"])
    /\ RestoreLineCount = 2

\* C36: Restore never invents wiring. Every wire on a parameter the
\* transaction created connects it to a peer that was connected, before the
\* transaction, to an old parameter of the same nickname and role; a new
\* parameter whose nickname is no key of the record has no wires.
C36_RestoreNeverInvents ==
    /\ \A p \in NewIn :
          /\ \A s \in Sources(wires, p.id) : HadInput(Key(p), s)
          /\ Recipients(wires, p.id) = {}
          /\ Key(p) \notin DOMAIN frame.old_input_connections
                => Sources(wires, p.id) = {}
    /\ \A p \in NewOut :
          /\ \A r \in Recipients(wires, p.id) : HadOutput(Key(p), r)
          /\ Sources(wires, p.id) = {}
          /\ Key(p) \notin DOMAIN frame.old_output_connections
                => Recipients(wires, p.id) = {}

\* Restore ran: the new `radius` input has exactly the two live peers of the
\* old one, and not the stale peer that was recorded with them
C36_Witness ==
    /\ RestoreRan
    /\ HadInput("radius", GuidEmpty)
    /\ \E p \in NewIn :
          Key(p) = "radius" /\ Sources(wires, p.id) = {Upstream, Upstream2}

\* C26: after a successful update_script carrying message_to_user the node
\* has an output named exactly `output` whose data is the message.
C26_MessageDelivered ==
    (Succeeded /\ cmd.type = UpdateScript /\ cmd.message_to_user # None) =>
        \E j \in DOMAIN Output :
            /\ Key(Output[j]) = "output"
            /\ Output[j].data = cmd.message_to_user

\* file_path has been pushed into a `code` input of the node
PathPushed ==
    /\ cmd.file_path # None
    /\ \E j \in DOMAIN Input :
          Lower(Key(Input[j])) = "code" /\ Input[j].data = cmd.file_path

\* C27: in update_script_with_code_reference, once file_path is pushed into
\* the `code` input no parameter is registered or unregistered, no wire is
\* changed and neither the description nor the nickname is changed.
C27_PathSetLast ==
    [][PathPushed => /\ ParamIds(Input') = ParamIds(Input)
                     /\ ParamIds(Output') = ParamIds(Output)
                     /\ wires' = wires
                     /\ comp'.Description = comp.Description
                     /\ comp'.NickName = comp.NickName]_vars

\* the inputs of the node keyed `code` (NickName or Name, any letter case)
CodeKeyed == {j \in DOMAIN Input : Lower(Key(Input[j])) = "code"}

\* a successful file-reference update that was forced or given a path
CodeRefRequested ==
    /\ Succeeded
    /\ cmd.type = UpdateCodeRef
    /\ cmd.force_code_reference \/ cmd.file_path # None

Rejected(c) == c.instance_guid \in {None, GuidBad, GuidMissing, GuidPlain}

\* C16: an update command rejected for a missing field or a failed lookup
\* leaves the node as it was: its parameters, wires, code, description and
\* file-reference flag, and the refresh flag of the document, are the same
\* after the command as before it.
C16_RejectedLeavesDocument ==
    (Returned /\ Rejected(cmd))
    => /\ frame.result.status = "error"
       /\ Snapshot = pre
       /\ Enabled
       /\ ~frame.froze

\* a wired node with inputs was named by a command that it cannot serve
C16_Witness ==
    /\ Returned
    /\ cmd.type = UpdateCodeRef
    /\ cmd.instance_guid = GuidPlain
    /\ frame.result.result = "not a script component"
    /\ Input # <<>>
    /\ wires # {}

(***************************************************************************)
(* The object queries: get_object, get_objects, get_selected               *)
(* (process_command, get_objects_with_context, get_selected_objects).      *)
(***************************************************************************)
\* largest context_depth a request asks for
MaxDepthAsked == 5

\* most ids a get_objects request lists
MaxTargets == 2

\* the document: two components with child parameters, three standalone
\* parameters
Components == {"A", "B"}
Standalone == {"S", "T", "V"}
TopLevel   == Components \cup Standalone

\* child parameter -> owning component, by role
InputsOf(c)  == IF c = "A" THEN {"A.in"} ELSE IF c = "B" THEN {"B.in"} ELSE {}
OutputsOf(c) == IF c = "A" THEN {"A.out"} ELSE {}
ChildParams  == UNION {InputsOf(c) \cup OutputsOf(c) : c \in Components}

\* an id that names no object of the document
UnknownGuid == "X"

QueryIds == TopLevel \cup ChildParams \cup {UnknownGuid}

\* the wires a document of the model may hold
PossibleWires ==
    { <<"V", "T">>, <<"T", "S">>, <<"S", "A.in">>, <<"S", "T">>,
      <<"A.out", "B.in">>, <<"A.out", "V">>, <<"T", "B.in">> }

\* get_param_info, lines 139-236: the descriptor of a parameter; None when
\* reading it raises
get_param_info(w, bad, param, is_input, parent, is_selected) ==
    IF param \in bad THEN [ok |-> FALSE, sources |-> {}, targets |-> {},
                           instanceGuid |-> param, isSelected |-> is_selected,
                           kind |-> "parameter"]
    ELSE [ ok           |-> TRUE,
           instanceGuid |-> param,
           kind         |-> "parameter",
           isSelected   |-> is_selected,
           sources      |-> Sources(w, param)
                              \cup (IF parent # None /\ ~is_input THEN {parent} ELSE {}),
           targets      |-> Recipients(w, param)
                              \cup (IF parent # None /\ is_input THEN {parent} ELSE {}) ]

\* get_component_info, lines 239-349: the descriptor of a component; its
\* sources are those of its inputs and its targets those of its outputs,
\* without its own id and the ids of its own parameters
get_component_info(w, bad, c, is_selected) ==
    LET ins  == {get_param_info(w, bad, p, TRUE, c, FALSE) : p \in InputsOf(c)}
        outs == {get_param_info(w, bad, p, FALSE, c, FALSE) : p \in OutputsOf(c)}
        aggregated_sources == UNION {i.sources : i \in {x \in ins : x.ok}}
        aggregated_targets == UNION {o.targets : o \in {x \in outs : x.ok}}
        param_guids == {i.instanceGuid : i \in {x \in ins \cup outs : x.ok}}
    IN  [ ok           |-> c \notin bad,
          instanceGuid |-> c,
          kind         |-> "component",
          isSelected   |-> is_selected,
          sources      |-> IF c \in bad THEN {}
                           ELSE {x \in aggregated_sources : x # c /\ x \notin param_guids},
          targets      |-> IF c \in bad THEN {}
                           ELSE {x \in aggregated_targets : x # c /\ x \notin param_guids} ]

\* every descriptor is marked selected
AllObjectsSelected(w, bad, selected_guids_set) ==
    LET info(o) == IF o \in Components
                   THEN get_component_info(w, bad, o, TRUE)
                   ELSE get_param_info(w, bad, o, FALSE, None, TRUE)
    IN  [o \in {x \in TopLevel : info(x).ok} |-> info(o)]

\* get_all_relevant_objects_info, lines 381-409: descriptors of every
\* component and standalone parameter, keyed by id; an object whose
\* extraction failed is left out
get_all_relevant_objects_info(w, bad, selected_guids_set) ==
    LET info(o) == IF o \in Components
                   THEN get_component_info(w, bad, o, o \in selected_guids_set)
                   ELSE get_param_info(w, bad, o, FALSE, None, o \in selected_guids_set)
    IN  [o \in {x \in TopLevel : info(x).ok} |-> info(o)]

\* the neighbours a traversal step looks at, line 462
Neighbors(all_objects_info, guid) ==
    all_objects_info[guid].sources \cup all_objects_info[guid].targets

\* lines 456-472: `passes` rounds of neighbour finding from current_level;
\* the ids visited (they are the ids added to guids_to_include)
RECURSIVE Traverse(_, _, _, _)
Traverse(all_objects_info, current_level, visited_for_context, passes) ==
    IF passes = 0 THEN visited_for_context
    ELSE LET next_level ==
                 {n \in UNION {Neighbors(all_objects_info, g) :
                                 g \in current_level \cap DOMAIN all_objects_info} :
                    n \in DOMAIN all_objects_info /\ n \notin visited_for_context}
         IN  IF next_level = {} THEN visited_for_context
             ELSE Traverse(all_objects_info, next_level,
                           visited_for_context \cup next_level, passes - 1)

Min(a, b) == IF a < b THEN a ELSE b

\* one pass more than the depth allows
PassesOneMore(max_depth) == max_depth + 1

\* the deeper the request, the fewer passes
PassesReversed(max_depth) == 3 - max_depth

\* line 456: range(max_depth), the number of passes of the traversal
Passes(max_depth) == max_depth

\* the result without the final restriction to guids_to_include
ResultGraphAll(all_objects_info, guids_to_include) == all_objects_info

\* step 4, lines 474-477: the descriptors of the included ids
ResultGraph(all_objects_info, guids_to_include) ==
    [g \in guids_to_include \cap DOMAIN all_objects_info |-> all_objects_info[g]]

\* get_objects_with_context, lines 412-481. raised: the call did not
\* return (line 438 calls get_object_by_instance_guid, a name this script
\* does not define, for every target that is not a key of all_objects_info)
get_objects_with_context(w, bad, target_guids, context_depth) ==
    LET all_objects_info == get_all_relevant_objects_info(w, bad, target_guids)
        unresolved == target_guids \ DOMAIN all_objects_info
        guids0 == target_guids \cap DOMAIN all_objects_info
        guids_to_include ==
            IF context_depth > 0 /\ guids0 # {}
            THEN Traverse(all_objects_info, guids0, guids0, Passes(Min(context_depth, 3)))
            ELSE guids0
    IN  IF unresolved # {}
        THEN [raised |-> TRUE, graph |-> <<>>]
        ELSE [raised |-> FALSE, graph |-> ResultGraph(all_objects_info, guids_to_include)]

\* an out-of-range depth falls back to 0
ValidateDepthOrZero(context_depth) ==
    IF context_depth < 0 \/ context_depth > 3 THEN 0 ELSE context_depth

\* lines 1157-1162 and 1179-1184: max(0, min(int(context_depth), 3))
ValidateDepth(context_depth) ==
    IF context_depth > 3 THEN 3 ELSE IF context_depth < 0 THEN 0 ELSE context_depth

\* the dictionary {"status": ..., "result": ...}; graph is the result when it
\* is a snapshot; doc_read records whether the command got as far as
\* ghenv.Component.OnPingDocument()
Envelope(status, result, g) ==
    [status |-> status, result |-> result, graph |-> g, doc_read |-> FALSE,
     processing_error |-> {}]

\* the envelope of a command that read the document
DocRead(envelope) == [envelope EXCEPT !.doc_read = TRUE]

\* lines 230-236 and 345-349: the objects whose extraction raised while
\* get_all_relevant_objects_info ran; each has a line appended to
\* sc.sticky["processing_error"]
ExtractionErrors(w, bad) ==
    {o \in TopLevel :
        ~(IF o \in Components THEN get_component_info(w, bad, o, FALSE)
          ELSE get_param_info(w, bad, o, FALSE, None, FALSE)).ok}

\* an extraction failure is not caught: the command ends in its handler
ExtractedOrFailed(envelope, w, bad) ==
    IF ExtractionErrors(w, bad) = {} THEN DocRead(envelope)
    ELSE DocRead(Envelope("error", "Error getting full context", <<>>))

\* the envelope of a command during which the whole document was extracted,
\* with the objects the diagnostic buffer gained a line for
Extracted(envelope, w, bad) ==
    [DocRead(envelope) EXCEPT !.processing_error = ExtractionErrors(w, bad)]

\* get_selected_objects, lines 483-512, on the selection the host reports
get_selected_objects(w, bad, selection, context_depth) ==
    IF selection = {} THEN DocRead(Envelope("success", "objects", <<>>))
    ELSE LET r == get_objects_with_context(w, bad, selection, context_depth)
         IN  IF r.raised
             THEN Extracted(Envelope("error", "Error getting selected objects", <<>>), w, bad)
             ELSE Extracted(Envelope("success", "objects", r.graph), w, bad)

\* every request is taken to list its ids
InstanceGuidsAsGiven(command_data) == command_data.instance_guids

\* lines 1146-1152: the ids of a get_object / get_objects command; a missing
\* or empty instance_guid, and a missing or non-list instance_guids, give []
InstanceGuidsOf(command_data) ==
    IF command_data.form = "given" THEN command_data.instance_guids ELSE {}

\* an exception leaving a callee: the status of a call that did not return
Raised == "<raised>"

\* the result slot when nothing is in it
NoResult == [status |-> None, result |-> None, graph |-> <<>>, doc_read |-> FALSE,
             processing_error |-> {}]

\* the code strings of the execute_code commands of the model
CodeResult     == "result = 1"
CodePass       == "pass"
CodeRaises     == "raise ValueError()"
CodeExits      == "raise SystemExit()"
CodeClearsFlag == "sc.sticky['run_server'] = False"
NotAString     == "<not a string>"

\* get_grasshopper_context, lines 515-535
get_grasshopper_context(w, bad) ==
    Extracted(Envelope("success", "objects", get_all_relevant_objects_info(w, bad, {})),
              w, bad)

\* expire_grasshopper_component, lines 353-377
expire_grasshopper_component(instance_guid_str) ==
    IF instance_guid_str = GuidBad
    THEN DocRead(Envelope("error", "Error finding object by GUID", <<>>))
    ELSE IF instance_guid_str = GuidMissing
    THEN DocRead(Envelope("error", "Object not found with GUID", <<>>))
    ELSE DocRead(Envelope("success", "component info", <<>>))

\* update_script_component, lines 738-761: the popped slot, or the fallback
\* when the slot is empty (sticky.pop with a default); the logged error is
\* appended to an error text, which keeps the text as its prefix
update_script_component(slot) ==
    IF slot = NoResult
    THEN Envelope("error", "UI thread action failed to execute.", <<>>)
    ELSE slot

\* update_script_with_code_reference, lines 1023-1054: after the pop, lines
\* 1036-1039 parse the id again and evaluate doc.FindObject(target_guid, ...),
\* names the function does not bind (it binds doc_ and target_guid_): the
\* call raises before it can return the popped result
update_script_with_code_reference(slot) ==
    Envelope(Raised, "NameError", <<>>)

\* execute_code, lines 1057-1078: exec of the code string; except Exception
\* does not catch SystemExit
execute_code(code_str) ==
    IF code_str = CodeRaises THEN Envelope("error", "Error executing code", <<>>)
    ELSE IF code_str = CodeExits THEN Envelope(Raised, "SystemExit", <<>>)
    ELSE IF code_str = CodeResult THEN Envelope("success", "result", <<>>)
    ELSE Envelope("success", "Code executed successfully (no 'result' variable).", <<>>)

\* lines 1257-1262: except Exception around the dispatch
CatchAll(r) ==
    IF r.status = Raised /\ r.result # "SystemExit"
    THEN [r EXCEPT !.status = "error", !.result = "Server error processing command"]
    ELSE r

\* the branches of process_command inside its try block, lines 1114-1255
Dispatch(w, bad, command_data) ==
    LET type == command_data.type
    IN  IF type = "test_command"
        THEN Envelope("success", "Test command executed successfully", <<>>)
        ELSE IF type = "get_context" THEN get_grasshopper_context(w, bad)
        ELSE IF type = "expire_component"
        THEN IF command_data.instance_guid = None
             THEN Envelope("error", "Missing 'instance_guid' for expire_component.", <<>>)
             ELSE expire_grasshopper_component(command_data.instance_guid)
        ELSE IF type \in {"get_object", "get_objects"}
        THEN IF InstanceGuidsOf(command_data) = {}
             THEN Envelope("error", "No instance GUID(s) provided.", <<>>)
             ELSE LET r == get_objects_with_context(w, bad, InstanceGuidsOf(command_data),
                                                    ValidateDepth(command_data.context_depth))
                  IN  IF r.raised
                      THEN Extracted(Envelope(Raised, "NameError", <<>>), w, bad)
                      ELSE IF r.graph # <<>>
                      THEN Extracted(Envelope("success", "objects", r.graph), w, bad)
                      ELSE Extracted(Envelope("error",
                                        "Target object(s) not found or not top-level", <<>>),
                                     w, bad)
        ELSE IF type = "get_selected"
        THEN get_selected_objects(w, bad, command_data.selection,
                                  ValidateDepth(command_data.context_depth))
        ELSE IF type = UpdateScript
        THEN IF command_data.instance_guid = None
             THEN Envelope("error", "Missing 'instance_guid' for update_script.", <<>>)
             ELSE update_script_component(temp_result)
        ELSE IF type = UpdateCodeRef
        THEN IF command_data.instance_guid = None
             THEN Envelope("error", "Missing 'instance_guid' for code reference update.", <<>>)
             ELSE update_script_with_code_reference(temp_result)
        ELSE IF type = "execute_code"
        THEN IF command_data.code \in {None, NotAString}
             THEN Envelope("error", "Missing or invalid 'code' parameter.", <<>>)
             ELSE execute_code(command_data.code)
        ELSE IF type = "stop"
        THEN Envelope("success", "Stop signal received. Server shutting down.", <<>>)
        ELSE Envelope("error", "Unknown command type received", <<>>)

\* process_command, lines 1106-1262: a command that parse_command could not
\* parse is answered at once; everything else is dispatched inside try
process_command(w, bad, command_data) ==
    IF command_data.type = "error"
    THEN Envelope("error", "Invalid command format (not valid JSON or missing 'type')", <<>>)
    ELSE CatchAll(Dispatch(w, bad, command_data))

\* form: how the command carries its ids: "given" (a GUID string, a list),
\* "missing" (no such field), "not_list" (instance_guids that is not a list)
Request0 ==
    [type |-> None, form |-> "given", instance_guids |-> {}, context_depth |-> 0,
     selection |-> {}, instance_guid |-> None, code |-> None]
Response0 == Envelope(None, None, <<>>)

Depths == -1 .. MaxDepthAsked

\* the object-query commands of the model
Requests ==
    { [Request0 EXCEPT !.type = "get_object", !.instance_guids = g, !.context_depth = d] :
        g \in {{x} : x \in QueryIds} \cup {{}}, d \in Depths }
    \cup
    { [Request0 EXCEPT !.type = "get_objects", !.instance_guids = g, !.context_depth = d] :
        g \in {x \in SUBSET QueryIds : Cardinality(x) <= MaxTargets}, d \in Depths }
    \cup
    { [Request0 EXCEPT !.type = "get_selected", !.selection = g, !.context_depth = d] :
        g \in {x \in SUBSET TopLevel : Cardinality(x) <= MaxTargets}, d \in Depths }
    \cup
    { [Request0 EXCEPT !.type = t, !.form = "missing", !.context_depth = d] :
        t \in {"get_object", "get_objects"}, d \in Depths }
    \cup
    { [Request0 EXCEPT !.type = "get_objects", !.form = "not_list",
                       !.instance_guids = {"A"}, !.context_depth = d] : d \in Depths }
    \cup
    { [Request0 EXCEPT !.type = "get_context"] }

QueryInit ==
    /\ doc_wires \in SUBSET PossibleWires
    /\ doc_bad \in {{}} \cup {{x} : x \in {"A", "S"}}
    /\ request = Request0
    /\ response = Response0

\* gh_socket_server.py, get_param_info, lines 39-87: the descriptor of a
\* parameter; None when reading it raises
gh_socket_server_get_param_info(w, bad, param) ==
    [ ok           |-> param \notin bad,
      instanceGuid |-> param,
      kind         |-> "parameter",
      isSelected   |-> FALSE,
      sources      |-> IF param \in bad THEN {} ELSE Sources(w, param),
      targets      |-> IF param \in bad THEN {} ELSE Recipients(w, param) ]

\* gh_socket_server.py, get_grasshopper_context, lines 90-179: every
\* component is keyed, then each of its output and input parameters under
\* the parameter's own id (lines 148-165), an input with its component
\* among its targets, then the parameters of the document; sources are
\* completed from targets (lines 168-171).  Reading a component that raises
\* ends the function in its except branch.
gh_socket_server_get_grasshopper_context(w, bad) ==
    LET param_info(o) ==
            LET i == gh_socket_server_get_param_info(w, bad, o)
            IN  IF \E c \in Components : o \in InputsOf(c)
                THEN [i EXCEPT !.targets =
                         @ \cup {c \in Components : o \in InputsOf(c)}]
                ELSE i
        comp_info(c) == [ ok |-> TRUE, instanceGuid |-> c, kind |-> "component",
                          isSelected |-> FALSE, sources |-> {}, targets |-> {} ]
        IO_graph == [o \in Components
                            \cup {x \in ChildParams \cup Standalone : param_info(x).ok}
                        |-> IF o \in Components THEN comp_info(o) ELSE param_info(o)]
        filled == [o \in DOMAIN IO_graph |->
                      [IO_graph[o] EXCEPT !.sources =
                          @ \cup {n \in DOMAIN IO_graph : o \in IO_graph[n].targets}]]
    IN  IF bad \cap Components # {}
        THEN DocRead(Envelope("error", "error", <<>>))
        ELSE DocRead(Envelope("success", "graph", filled))

\* the accept loop hands one command to process_command and gets its envelope
ProcessQuery ==
    /\ request = Request0
    /\ \E r \in Requests :
         /\ request' = r
         /\ response' = process_command(doc_wires, doc_bad, r)
    /\ UNCHANGED <<doc_wires, doc_bad>>
    /\ UNCHANGED <<updVars, sortVars, serverVars>>

\* gh_socket_server.py, process_command, lines 261-268: the socket-server
\* script answers get_context with the graph of its own
\* get_grasshopper_context
ProcessContextOnSocketServer ==
    /\ request = Request0
    /\ request' = [Request0 EXCEPT !.type = "get_context", !.form = "gh_socket_server"]
    /\ response' = gh_socket_server_get_grasshopper_context(doc_wires, doc_bad)
    /\ UNCHANGED <<doc_wires, doc_bad>>
    /\ UNCHANGED <<updVars, sortVars, serverVars>>

(***************************************************************************)
(* Properties of the object queries.                                       *)
(***************************************************************************)
Answered == request # Request0

\* the ids the request names: the listed ids, or the host's selection
TargetsOf(r) == IF r.type = "get_selected" THEN r.selection ELSE InstanceGuidsOf(r)

AllInfo == get_all_relevant_objects_info(doc_wires, doc_bad, TargetsOf(request))

ResolvedTargets == TargetsOf(request) \cap DOMAIN AllInfo

\* the nodes at most k hops from the set S along the descriptors' sources
\* and targets
RECURSIVE WithinHops(_, _)
WithinHops(S, k) ==
    IF k = 0 THEN S
    ELSE LET W == WithinHops(S, k - 1)
         IN  W \cup {m \in DOMAIN AllInfo :
                       \E n \in W : m \in AllInfo[n].sources \cup AllInfo[n].targets}

\* C6: bounded context. A successful filtered query with context depth d in
\* 0..3 returns only nodes that are at most d hops from a resolved target in
\* the graph of the top-level descriptors' sources and targets.
C6_BoundedContext ==
    (/\ Answered
     /\ request.type \in {"get_object", "get_objects", "get_selected"}
     /\ response.status = "success"
     /\ request.context_depth \in 0..3)
        => DOMAIN response.graph \subseteq WithinHops(ResolvedTargets, request.context_depth)

\* a depth-1 or depth-2 answer that holds a context node and leaves out a
\* node that is farther away
C6_Witness ==
    /\ Answered /\ response.status = "success"
    /\ request.context_depth \in 1..2
    /\ DOMAIN response.graph \ ResolvedTargets # {}
    /\ WithinHops(ResolvedTargets, 3) \ WithinHops(ResolvedTargets, request.context_depth) # {}

C9_ChildParameterRedirect ==
    \A c \in Components \ doc_bad : \A p \in InputsOf(c) :
        (Answered /\ request.type = "get_object" /\ request.instance_guids = {p})
            => /\ response.status = "success"
               /\ c \in DOMAIN response.graph
               /\ response.graph[c].isSelected
               /\ p \notin DOMAIN response.graph

\* C10: single found node, depth 0. get_object("A"), context_depth 0, with A
\* a top-level component the document yields a descriptor for, returns
\* success and a result whose only key is "A", whatever the wires and the
\* other objects are.
C10_SingleNodeDepthZero ==
    (/\ Answered /\ request.type = "get_object"
     /\ request.instance_guids = {"A"} /\ request.context_depth = 0
     /\ "A" \in DOMAIN AllInfo)
        => /\ response.status = "success"
           /\ DOMAIN response.graph = {"A"}
           /\ response.graph["A"].isSelected

\* get_object("A") at depth 0 in a document where A has neighbours
C10_Witness ==
    /\ Answered /\ request.type = "get_object"
    /\ request.instance_guids = {"A"} /\ request.context_depth = 0
    /\ "A" \in DOMAIN AllInfo
    /\ AllInfo["A"].sources # {} /\ AllInfo["A"].targets # {}
    /\ response.status = "success"

\* C11: empty target set. get_objects with an empty, missing or non-list
\* instance_guids, and get_object with a missing instance_guid, return the
\* error "No instance GUID(s) provided." without reading the document; the
\* document is never changed by a query.
C11_EmptyTargetSet ==
    /\ []((/\ Answered
           /\ request.type \in {"get_object", "get_objects"}
           /\ (request.form # "given" \/ request.instance_guids = {}))
          => /\ response.status = "error"
             /\ response.result = "No instance GUID(s) provided."
             /\ ~response.doc_read)
    /\ [][doc_wires' = doc_wires /\ doc_bad' = doc_bad]_vars

\* a get_objects whose instance_guids is not a list was refused, in a
\* document that holds the object it names
C11_Witness ==
    /\ Answered
    /\ request.type = "get_objects" /\ request.form = "not_list"
    /\ request.instance_guids = {"A"}
    /\ doc_wires # {} /\ doc_bad = {}
    /\ response.result = "No instance GUID(s) provided."

\* C12: ids that resolve to nothing are dropped. A get_object / get_objects
\* request whose ids are known top-level nodes and ids that name no object
\* returns success with the entries of the known nodes (exactly those at
\* depth 0) when at least one id resolves, and the "not found" error only
\* when none does.
C12_UnresolvedIdsDropped ==
    (/\ Answered
     /\ request.type \in {"get_object", "get_objects"}
     /\ InstanceGuidsOf(request) # {}
     /\ InstanceGuidsOf(request) \subseteq DOMAIN AllInfo \cup {UnknownGuid})
        => IF ResolvedTargets # {}
           THEN /\ response.status = "success"
                /\ ResolvedTargets \subseteq DOMAIN response.graph
                /\ UnknownGuid \notin DOMAIN response.graph
                /\ request.context_depth <= 0 => DOMAIN response.graph = ResolvedTargets
           ELSE /\ response.status = "error"
                /\ response.result = "Target object(s) not found or not top-level"

\* C17: when an output of component A is wired to an input of component B,
\* a get_objects request that names A or B with context_depth 1 or more
\* returns both A and B.
C17_ConnectedComponentsIncluded ==
    (/\ Answered
     /\ request.type = "get_objects"
     /\ request.context_depth >= 1
     /\ <<"A.out", "B.in">> \in doc_wires
     /\ doc_bad = {}
     /\ InstanceGuidsOf(request) \in {{"A"}, {"B"}})
        => /\ response.status = "success"
           /\ {"A", "B"} \subseteq DOMAIN response.graph

\* the component a parameter belongs to; None for every other object
ParentOf(o) ==
    IF \E c \in Components : o \in InputsOf(c) \cup OutputsOf(c)
    THEN CHOOSE c \in Components : o \in InputsOf(c) \cup OutputsOf(c)
    ELSE None

\* C20: in the snapshot a full-context or filtered query returns, no key is
\* the id of a parameter that has a parent component.
C20_NoChildParameterKeys ==
    Answered => \A k \in DOMAIN response.graph : ParentOf(k) = None

\* the nodes a filtered request resolves to: the requested top-level ids and
\* the parents of the requested child parameters
SelectedTargets ==
    (TargetsOf(request) \cap TopLevel)
        \cup {ParentOf(p) : p \in TargetsOf(request) \cap ChildParams}

\* C35: in the snapshot of a filtered query isSelected is true exactly for
\* the resolved target nodes; a node that context expansion added is marked
\* not selected.
C35_SelectedExactlyTargets ==
    (/\ Answered
     /\ request.type \in {"get_object", "get_objects", "get_selected"}
     /\ response.status = "success")
        => \A o \in DOMAIN response.graph :
              response.graph[o].isSelected <=> o \in SelectedTargets

\* a snapshot with two targets and a node that only the expansion added
C35_Witness ==
    /\ Answered
    /\ request.type = "get_objects"
    /\ response.status = "success"
    /\ request.context_depth >= 1
    /\ Cardinality(SelectedTargets) = 2
    /\ \E o \in DOMAIN response.graph :
          o \notin SelectedTargets /\ ~response.graph[o].isSelected
    /\ \A o \in SelectedTargets :
          o \in DOMAIN response.graph /\ response.graph[o].isSelected

\* the answer to the request in hand asked with one more level of context
OneDeeper ==
    process_command(doc_wires, doc_bad,
                    [request EXCEPT !.context_depth = request.context_depth + 1])

\* C39: context expansion is monotone in the depth: for d in 0..2 the keys
\* returned with context_depth d are among the keys returned with d + 1, and
\* the keys returned with depth 0 are exactly the resolved targets.
C39_MonotoneInDepth ==
    (/\ Answered
     /\ request.type \in {"get_object", "get_objects", "get_selected"}
     /\ response.status = "success"
     /\ request.context_depth \in 0..2)
        => /\ OneDeeper.status = "success"
           /\ DOMAIN response.graph \subseteq DOMAIN OneDeeper.graph
           /\ request.context_depth = 0 => DOMAIN response.graph = ResolvedTargets

\* a depth-1 answer with a context node, whose depth-2 answer holds one node
\* more
C39_Witness ==
    /\ Answered
    /\ request.type \in {"get_object", "get_objects"}
    /\ response.status = "success"
    /\ request.context_depth = 1
    /\ DOMAIN response.graph \ ResolvedTargets # {}
    /\ DOMAIN OneDeeper.graph \ DOMAIN response.graph # {}

MaxFanOut == 2

\* the keys of the graph, in key order; the targets range over every list, so
\* every shape of graph occurs with every relative order of its keys
KeyOrder == <<"a", "b", "c">>

SortNodes == SeqRange(KeyOrder)

\* a target id that is not a key of the graph
Dangling == "x"

\* the sequences of length at most n over S
RECURSIVE Lists(_, _)
Lists(S, n) ==
    IF n = 0 THEN {<<>>}
    ELSE LET shorter == Lists(S, n - 1)
         IN  shorter \cup {Append(l, x) : l \in shorter, x \in S}

\* the lists of targets: the lists without a repeated id, and the lists
\* that repeat one id
TargetLists ==
    {l \in Lists(SortNodes \cup {Dangling}, MaxFanOut) :
        \/ \A i, j \in 1..Len(l) : i # j => l[i] # l[j]
        \/ \A i, j \in 1..Len(l) : l[i] = l[j]}

Graphs ==
    {[i \in 1..Len(KeyOrder) |-> [id |-> KeyOrder[i], targets |-> t[KeyOrder[i]]]] :
        t \in [SortNodes -> TargetLists]}

Keys(g) == {g[i].id : i \in 1..Len(g)}

Entry(g, id) == g[CHOOSE i \in 1..Len(g) : g[i].id = id]

\* no edge is counted
CountInDegreeNone(g) == [n \in Keys(g) |-> 0]

\* lines 265-272: the in-degree of every key, counting the targets that are
\* keys
CountInDegree(g) ==
    [n \in Keys(g) |->
        Cardinality({<<i, j>> \in (1..Len(g)) \X (1..MaxFanOut + 1) :
                        j <= Len(g[i].targets) /\ g[i].targets[j] = n})]

\* lines 287-293: the loop over the targets of the popped node; the state is
\* the pair of in_degree and queue
RECURSIVE ReduceTargets(_, _, _, _)
ReduceTargets(targets, j, deg, q) ==
    IF j > Len(targets) THEN <<deg, q>>
    ELSE LET target_id == targets[j]
         IN  IF target_id \in DOMAIN deg
             THEN LET d2 == [deg EXCEPT ![target_id] = @ - 1]
                  IN  ReduceTargets(targets, j + 1, d2,
                                    IF d2[target_id] = 0 THEN Append(q, target_id) ELSE q)
             ELSE ReduceTargets(targets, j + 1, deg, q)

SortIdle ==
    /\ in_degree = <<>>
    /\ queue = <<>>
    /\ sorted_order = <<>>
    /\ ordered_graph = <<>>
    /\ sort_pc = "idle"

SortInit ==
    /\ graph \in Graphs
    /\ SortIdle

\* lines 265-278: in-degrees, the queue of the keys of in-degree 0 in key
\* order, an empty sorted_order
SortBegin ==
    /\ sort_pc = "idle"
    /\ in_degree' = CountInDegree(graph)
    /\ queue' = SelectSeq([i \in 1..Len(graph) |-> graph[i].id],
                          LAMBDA n : CountInDegree(graph)[n] = 0)
    /\ sorted_order' = <<>>
    /\ sort_pc' = "loop"
    /\ UNCHANGED <<graph, ordered_graph>>
    /\ UNCHANGED <<updVars, queryVars, serverVars>>

\* lines 281-293: one round of the while loop
SortPop ==
    /\ sort_pc = "loop"
    /\ queue # <<>>
    /\ LET current_id == Head(queue)
           r == ReduceTargets(Entry(graph, current_id).targets, 1, in_degree, Tail(queue))
       IN  /\ sorted_order' = Append(sorted_order, current_id)
           /\ in_degree' = r[1]
           /\ queue' = r[2]
    /\ UNCHANGED <<graph, ordered_graph, sort_pc>>
    /\ UNCHANGED <<updVars, queryVars, serverVars>>

\* nothing is appended after the queue has run empty
NoRemainingNodes(g, order) == <<>>

\* the keys that are not in sorted_order, last key first
RemainingNodesReversed(g, order) ==
    LET r == SelectSeq([i \in 1..Len(g) |-> g[i].id], LAMBDA n : n \notin SeqRange(order))
    IN  [i \in 1..Len(r) |-> r[Len(r) + 1 - i]]

\* line 296: the keys that are not in sorted_order, in key order
RemainingNodes(g, order) ==
    SelectSeq([i \in 1..Len(g) |-> g[i].id], LAMBDA n : n \notin SeqRange(order))

\* lines 300-303: the dictionary filled in the order of sorted_order; an id
\* that is not a key of the graph is skipped, an id that comes again keeps
\* the place of its first insertion
RECURSIVE FillOrdered(_, _, _, _)
FillOrdered(g, order, i, d) ==
    IF i > Len(order) THEN d
    ELSE FillOrdered(g, order, i + 1,
                     IF order[i] \in Keys(g) /\ order[i] \notin Keys(d)
                     THEN Append(d, Entry(g, order[i]))
                     ELSE d)

\* lines 296-305: the remaining nodes in key order, then the ordered
\* dictionary
SortFinish ==
    /\ sort_pc = "loop"
    /\ queue = <<>>
    /\ LET remaining_nodes == RemainingNodes(graph, sorted_order)
           order == sorted_order \o remaining_nodes
       IN  /\ sorted_order' = order
           /\ ordered_graph' = FillOrdered(graph, order, 1, <<>>)
    /\ sort_pc' = "done"
    /\ UNCHANGED <<graph, in_degree, queue>>
    /\ UNCHANGED <<updVars, queryVars, serverVars>>

SortNext == SortBegin \/ SortPop \/ SortFinish

(***************************************************************************)
(* Properties of the sorter.                                               *)
(***************************************************************************)
Sorted == sort_pc = "done"

Pos(id) == CHOOSE i \in 1..Len(ordered_graph) : ordered_graph[i].id = id

KeyPos(id) == CHOOSE i \in 1..Len(graph) : graph[i].id = id

\* a -> b is an edge between keys
Edge(a, b) == b \in SeqRange(Entry(graph, a).targets)

\* the keys reachable from the set S by at least one edge
RECURSIVE ReachableIn(_, _)
ReachableIn(S, k) ==
    IF k = 0 THEN {}
    ELSE LET step == {b \in Keys(graph) : \E a \in S : Edge(a, b)}
         IN  step \cup ReachableIn(step, k - 1)

Reaches(a, b) == b \in ReachableIn({a}, Len(graph))

OnCycle(a) == Reaches(a, a)

\* on a cycle or downstream of one
BehindCycle(a) == \E m \in Keys(graph) : OnCycle(m) /\ (m = a \/ Reaches(m, a))

\* C8 as stated: an edge a -> b between keys has a before b, unless a and b
\* are part of a cycle, and then both come after every node that is on no
\* cycle, in key order.
C8_TopologicalUnlessCycle ==
    Sorted =>
        LET cyclic == {n \in Keys(graph) : OnCycle(n)}
        IN  \A a, b \in Keys(graph) :
                Edge(a, b) =>
                    IF a \in cyclic /\ b \in cyclic
                    THEN \A n \in Keys(graph) :
                            /\ n \notin cyclic => (Pos(n) < Pos(a) /\ Pos(n) < Pos(b))
                            /\ (n \in cyclic /\ KeyPos(n) < KeyPos(a)) => Pos(n) < Pos(a)
                    ELSE Pos(a) < Pos(b)

\* C8: an edge a -> b between keys has a before b, unless a is on a cycle or
\* downstream of one; the nodes on or downstream of a cycle come after all
\* the others, in key order; the result holds the entries of the input.
C8_TopologicalUnlessBehindCycle ==
    Sorted =>
        LET behind == {n \in Keys(graph) : BehindCycle(n)}
        IN  /\ \A a, b \in Keys(graph) :
                  Edge(a, b) => (Pos(a) < Pos(b) \/ (a \in behind /\ b \in behind))
            /\ \A t \in behind : \A n \in Keys(graph) :
                  /\ n \notin behind => Pos(n) < Pos(t)
                  /\ (n \in behind /\ KeyPos(n) < KeyPos(t)) => Pos(n) < Pos(t)
            /\ Len(ordered_graph) = Len(graph)
            /\ SeqRange(ordered_graph) = SeqRange(graph)

\* a sorted graph with a cycle, a node downstream of the cycle that precedes
\* it in key order, and a node the queue processed
C8_Witness ==
    /\ Sorted
    /\ \E a, b, c \in Keys(graph) :
          /\ OnCycle(a) /\ Edge(a, b) /\ ~OnCycle(b) /\ KeyPos(b) < KeyPos(a)
          /\ ~BehindCycle(c) /\ Edge(c, a) /\ KeyPos(a) < KeyPos(c)
          /\ Pos(c) < Pos(a)


\* C19: the sorter only reorders: whatever the graph (acyclic or cyclic,
\* with repeated or dangling targets), the result has the keys of the input,
\* each once, each with the descriptor it has in the input, and the input
\* is not changed.
C19_PureReordering ==
    /\ [](Sorted =>
            /\ Keys(ordered_graph) = Keys(graph)
            /\ Len(ordered_graph) = Len(graph)
            /\ \A i \in 1..Len(ordered_graph) :
                  ordered_graph[i] = Entry(graph, ordered_graph[i].id)
            /\ Len(sorted_order) = Len(graph))
    /\ [][graph' = graph]_vars

\* a sorted graph with a cycle, a repeated target and a dangling target
C19_Witness ==
    /\ Sorted
    /\ \E a \in Keys(graph) : OnCycle(a)
    /\ \E a \in Keys(graph) :
          LET t == Entry(graph, a).targets
          IN  Len(t) = 2 /\ t[1] = t[2] /\ t[1] \in Keys(graph)
    /\ \E a \in Keys(graph) : Dangling \in SeqRange(Entry(graph, a).targets)

\* the nodes the queue processed: their in-degree came down to 0; the others
\* were left unvisited when the queue ran empty
Processed == {n \in Keys(graph) : in_degree[n] = 0}
Unvisited == Keys(graph) \ Processed

\* C32: the sorter terminates on every graph, cyclic ones and ones with
\* self-loops included, and in its result the nodes left unvisited when the
\* queue emptied come after every node the queue processed, in the key order
\* of the input.
C32_CycleTolerant ==
    /\ <>Sorted
    /\ [](Sorted =>
            /\ Keys(ordered_graph) = Keys(graph)
            /\ \A r \in Unvisited :
                  /\ \A q \in Processed : Pos(q) < Pos(r)
                  /\ \A r2 \in Unvisited : KeyPos(r) < KeyPos(r2) => Pos(r) < Pos(r2))

\* a sorted graph with a self-loop and a cycle of two other nodes whose
\* unvisited nodes precede, in key order, a node the queue processed
C32_Witness ==
    /\ Sorted
    /\ Cardinality(Unvisited) >= 2
    /\ \E a \in Keys(graph) : Edge(a, a)
    /\ \E a, b \in Keys(graph) : a # b /\ Edge(a, b) /\ Edge(b, a)
    /\ \E q \in Processed : \E r \in Unvisited : KeyPos(r) < KeyPos(q)

(***************************************************************************)
(* The socket server thread, GHCodeMCP_new.py lines 1267-1452: one         *)
(* connection at a time is accepted, its command read, dispatched and      *)
(* answered.  The two update commands post an action to the UI thread and  *)
(* collect its result from the slot sc.sticky["__temp_result"].            *)
(***************************************************************************)
MaxConnections == 2

\* the document the server answers about
ServerWires == {<<"A.out", "B.in">>, <<"S", "A.in">>}

\* the commands of the model that parse_command, lines 1083-1103, can hand
\* to the dispatcher; type "error" is what it returns for a body it cannot
\* parse
ServerCommands ==
    { [Request0 EXCEPT !.type = t] :
        t \in {"error", "test_command", "get_context", "stop", "unknown"} }
    \cup
    { [Request0 EXCEPT !.type = "expire_component", !.instance_guid = g] :
        g \in {None, GuidScript, GuidMissing, GuidBad} }
    \cup
    { [Request0 EXCEPT !.type = "get_object", !.instance_guids = g, !.context_depth = d] :
        g \in {{"A"}, {UnknownGuid}, {}}, d \in {0, 1} }
    \cup
    { [Request0 EXCEPT !.type = "get_objects", !.instance_guids = g] :
        g \in {{"A", "S"}, {"A", UnknownGuid}} }
    \cup
    { [Request0 EXCEPT !.type = "get_selected", !.selection = g] : g \in {{}, {"A"}} }
    \cup
    { [Request0 EXCEPT !.type = t, !.instance_guid = g] :
        t \in {UpdateScript, UpdateCodeRef},
        g \in {None, GuidScript, GuidPlain, GuidMissing, GuidBad} }
    \cup
    { [Request0 EXCEPT !.type = "execute_code", !.code = c] :
        c \in {None, NotAString, CodeResult, CodePass, CodeRaises, CodeExits,
               CodeClearsFlag} }

\* the commands whose handler posts an action to the UI thread: lines
\* 1199-1204 and 1221-1226 return before calling the wrapper when the
\* command has no instance_guid
NeedsUiThread(command_data) ==
    /\ command_data.type \in {UpdateScript, UpdateCodeRef}
    /\ command_data.instance_guid # None

\* _update_script_component_on_ui_thread, lines 538-733, by its result
ScriptUpdateResults(instance_guid_str) ==
    IF instance_guid_str = GuidBad
    THEN {Envelope("error", "Invalid instance GUID format", <<>>)}
    ELSE IF instance_guid_str \in {GuidMissing, GuidPlain}
    THEN {Envelope("error", "Target component not found or is not a script component.",
                   <<>>)}
    ELSE {Envelope("success", "component updated", <<>>),
          Envelope("error", "Error updating parameters", <<>>),
          Envelope("error", "Error during component update", <<>>)}

\* _update_script_with_code_ref_on_ui_thread, lines 764-1018, by its result
CodeRefUpdateResults(instance_guid_str) ==
    IF instance_guid_str = GuidBad
    THEN {Envelope("error", "Invalid instance GUID format", <<>>)}
    ELSE IF instance_guid_str = GuidMissing
    THEN {Envelope("error", "Component not found", <<>>)}
    ELSE IF instance_guid_str = GuidPlain
    THEN {Envelope("error",
                   "Component is not a script component supporting code reference.", <<>>)}
    ELSE {Envelope("success", "component updated", <<>>),
          Envelope("error", "Error during code reference update", <<>>)}

UiResults(command_data) ==
    IF command_data.type = UpdateScript
    THEN ScriptUpdateResults(command_data.instance_guid)
    ELSE CodeRefUpdateResults(command_data.instance_guid)

\* lines 1373-1378: the error texts of the model that, in lower case, contain
\* "invalid command format", "missing 'instance_guid'", "invalid 'code'
\* parameter", "no instance guid" or "object(s) not found"; no text of the
\* model contains "parsing failed"
ClientErrorTexts ==
    { "Invalid command format (not valid JSON or missing 'type')",
      "Missing 'instance_guid' for expire_component.",
      "Missing 'instance_guid' for update_script.",
      "Missing 'instance_guid' for code reference update.",
      "Missing or invalid 'code' parameter.",
      "No instance GUID(s) provided.",
      "Target object(s) not found or not top-level" }

\* lines 1368-1387
StatusCode(result) ==
    IF result.status = "error"
    THEN IF result.result \in ClientErrorTexts THEN 400 ELSE 500
    ELSE 200

\* what is written to a connection, with the command it answers and, at the
\* moment of writing, the run flag and the state of the posted UI action
Written(code, body, command_data, flag, ui, ui_result) ==
    [code |-> code, body |-> body, command |-> command_data, run_server |-> flag,
     ui |-> ui, deposited |-> ui_result, conn |-> accepted, popped_by |-> popped_by]

MaxThreads == 3
Threads == 1..MaxThreads

\* a Thread object: unborn until start() is called on it
Thread(at, signal) == [at |-> at, signal |-> signal]

\* the component has not been switched on: lines 1466-1470, the defaults of
\* locals().get and sticky.get
MainIdle ==
    /\ RunServer = FALSE
    /\ server_is_intended_to_run = FALSE
    /\ server_thread_obj = 0
    /\ threads = [t \in Threads |-> Thread("unborn", "none")]

\* lines 1492-1498 have run once: thread 1 is the server thread
MainStarted ==
    /\ RunServer = TRUE
    /\ server_is_intended_to_run = TRUE
    /\ server_thread_obj = 1
    /\ threads = [t \in Threads |->
                    IF t = 1 THEN Thread("accept", "none") ELSE Thread("unborn", "none")]

\* the main script, lines 1492-1498, has set the flag and started the thread
ServerInit ==
    /\ MainStarted
    /\ run_server = TRUE
    /\ srv_pc = "loop"
    /\ command = Request0
    /\ result_dict = NoResult
    /\ sent = <<>>
    /\ temp_result = NoResult
    /\ ui_pc = "none"
    /\ deposited = NoResult
    /\ accepted = 0
    /\ ui_queue = {}
    /\ slot_by = 0
    /\ popped_by = 0

\* no server thread
ServerIdle ==
    /\ MainIdle
    /\ run_server = FALSE
    /\ srv_pc = "stopped"
    /\ command = Request0
    /\ result_dict = NoResult
    /\ sent = <<>>
    /\ temp_result = NoResult
    /\ ui_pc = "none"
    /\ deposited = NoResult
    /\ accepted = 0
    /\ ui_queue = {}
    /\ slot_by = 0
    /\ popped_by = 0

\* lines 1278, 1435, 1442-1452: the loop test fails, the thread ends
SrvExit ==
    /\ srv_pc = "loop"
    /\ ~run_server
    /\ srv_pc' = "stopped"
    /\ run_server' = FALSE
    /\ UNCHANGED <<command, result_dict, sent, temp_result, ui_pc, deposited, accepted>>
    /\ UNCHANGED <<ui_queue, slot_by, popped_by>>
    /\ UNCHANGED mainVars
    /\ UNCHANGED <<updVars, queryVars, sortVars>>

\* a connection is accepted whatever the run flag says
SrvAcceptUnchecked ==
    /\ srv_pc = "loop"
    /\ accepted < MaxConnections
    /\ accepted' = accepted + 1
    /\ srv_pc' = "read"
    /\ command' = Request0
    /\ result_dict' = NoResult
    /\ ui_pc' = "none"
    /\ deposited' = NoResult
    /\ UNCHANGED <<run_server, sent, temp_result>>
    /\ popped_by' = 0
    /\ UNCHANGED <<ui_queue, slot_by>>
    /\ UNCHANGED mainVars
    /\ UNCHANGED <<updVars, queryVars, sortVars>>

\* lines 1278-1285: the loop test passes and a connection is accepted
SrvAccept ==
    /\ srv_pc = "loop"
    /\ run_server
    /\ accepted < MaxConnections
    /\ accepted' = accepted + 1
    /\ srv_pc' = "read"
    /\ command' = Request0
    /\ result_dict' = NoResult
    /\ ui_pc' = "none"
    /\ deposited' = NoResult
    /\ UNCHANGED <<run_server, sent, temp_result>>
    /\ popped_by' = 0
    /\ UNCHANGED <<ui_queue, slot_by>>
    /\ UNCHANGED mainVars
    /\ UNCHANGED <<updVars, queryVars, sortVars>>

\* lines 1287-1364: headers and body arrive, parse_command gives the command
SrvReadCommand ==
    /\ srv_pc = "read"
    /\ \E c \in ServerCommands : command' = c
    /\ srv_pc' = "process"
    /\ UNCHANGED <<run_server, result_dict, sent, temp_result, ui_pc, deposited, accepted>>
    /\ UNCHANGED <<ui_queue, slot_by, popped_by>>
    /\ UNCHANGED mainVars
    /\ UNCHANGED <<updVars, queryVars, sortVars>>

\* a read timeout that ends the server: the run flag is cleared
SrvReadTimeoutFatal ==
    /\ srv_pc = "read"
    /\ command' = [Request0 EXCEPT !.type = "<timeout>"]
    /\ sent' = Append(sent, Written(408, NoResult, command', run_server, ui_pc, deposited))
    /\ srv_pc' = "loop"
    /\ run_server' = FALSE
    /\ UNCHANGED <<result_dict, temp_result, ui_pc, deposited, accepted>>
    /\ UNCHANGED <<ui_queue, slot_by, popped_by>>
    /\ UNCHANGED mainVars
    /\ UNCHANGED <<updVars, queryVars, sortVars>>

\* lines 1297-1298, 1355, 1410-1415: a read times out, 408 is written
SrvReadTimeout ==
    /\ srv_pc = "read"
    /\ command' = [Request0 EXCEPT !.type = "<timeout>"]
    /\ sent' = Append(sent, Written(408, NoResult, command', run_server, ui_pc, deposited))
    /\ srv_pc' = "loop"
    /\ UNCHANGED <<run_server, result_dict, temp_result, ui_pc, deposited, accepted>>
    /\ UNCHANGED <<ui_queue, slot_by, popped_by>>
    /\ UNCHANGED mainVars
    /\ UNCHANGED <<updVars, queryVars, sortVars>>

\* lines 1293, 1302-1304: the peer closed before the headers were complete
SrvReadClosed ==
    /\ srv_pc = "read"
    /\ srv_pc' = "loop"
    /\ command' = [Request0 EXCEPT !.type = "<closed>"]
    /\ UNCHANGED <<run_server, result_dict, sent, temp_result, ui_pc, deposited, accepted>>
    /\ UNCHANGED <<ui_queue, slot_by, popped_by>>
    /\ UNCHANGED mainVars
    /\ UNCHANGED <<updVars, queryVars, sortVars>>

\* lines 1327-1339: a CORS preflight is answered 200 with no body
SrvOptions ==
    /\ srv_pc = "read"
    /\ command' = [Request0 EXCEPT !.type = "<options>"]
    /\ sent' = Append(sent, Written(200, NoResult, command', run_server, ui_pc, deposited))
    /\ srv_pc' = "loop"
    /\ UNCHANGED <<run_server, result_dict, temp_result, ui_pc, deposited, accepted>>
    /\ UNCHANGED <<ui_queue, slot_by, popped_by>>
    /\ UNCHANGED mainVars
    /\ UNCHANGED <<updVars, queryVars, sortVars>>

\* lines 1296, 1310-1317, 1348, 1353, 1416-1427: a malformed request
SrvReadError ==
    /\ srv_pc = "read"
    /\ command' = [Request0 EXCEPT !.type = "<malformed>"]
    /\ sent' = Append(sent, Written(500,
                        Envelope("error", "Internal server error processing request.", <<>>),
                        command', run_server, ui_pc, deposited))
    /\ srv_pc' = "loop"
    /\ UNCHANGED <<run_server, result_dict, temp_result, ui_pc, deposited, accepted>>
    /\ UNCHANGED <<ui_queue, slot_by, popped_by>>
    /\ UNCHANGED mainVars
    /\ UNCHANGED <<updVars, queryVars, sortVars>>

\* line 1365 for a command that needs no UI action.  The stop branch, line
\* 1248, and code that assigns the sticky entry clear the run flag here.  A
\* SystemExit passes every except Exception on its way out (lines 1257,
\* 1416, 1437): the connection is closed unanswered and the thread ends in
\* the outer finally, lines 1442-1452.  Any other exception that leaves the
\* dispatcher is answered by lines 1416-1427.
SrvProcess ==
    /\ srv_pc = "process"
    /\ ~NeedsUiThread(command)
    /\ LET r == process_command(doc_wires, doc_bad, command)
       IN  /\ result_dict' = r
           /\ IF r.status = Raised /\ r.result = "SystemExit"
              THEN /\ srv_pc' = "stopped"
                   /\ run_server' = FALSE
                   /\ sent' = sent
              ELSE IF r.status = Raised
              THEN /\ srv_pc' = "loop"
                   /\ run_server' = run_server
                   /\ sent' = Append(sent, Written(500,
                                Envelope("error",
                                         "Internal server error processing request.", <<>>),
                                command, run_server, ui_pc, deposited))
              ELSE /\ srv_pc' = "send"
                   /\ run_server' = IF \/ command.type = "stop"
                                       \/ /\ command.type = "execute_code"
                                          /\ command.code = CodeClearsFlag
                                    THEN FALSE
                                    ELSE run_server
                   /\ sent' = sent
    /\ UNCHANGED <<command, temp_result, ui_pc, deposited, accepted>>
    /\ UNCHANGED <<ui_queue, slot_by, popped_by>>
    /\ UNCHANGED mainVars
    /\ UNCHANGED <<updVars, queryVars, sortVars>>

\* lines 741-748 and 1026-1033: the wrapper posts its action and waits in
\* InvokeOnUiThread
SrvInvoke ==
    /\ srv_pc = "process"
    /\ NeedsUiThread(command)
    /\ ui_pc = "none"
    /\ ui_pc' = "posted"
    /\ srv_pc' = "ui_wait"
    /\ UNCHANGED <<run_server, command, result_dict, sent, temp_result, deposited, accepted>>
    /\ UNCHANGED <<ui_queue, slot_by, popped_by>>
    /\ UNCHANGED mainVars
    /\ UNCHANGED <<updVars, queryVars, sortVars>>

\* lines 743-746 and 1028-1031: the UI thread runs the action, which puts
\* the result of the update into the slot
UiRun ==
    /\ ui_pc = "posted"
    /\ \E r \in UiResults(command) :
         /\ temp_result' = r
         /\ deposited' = r
    /\ ui_pc' = "ran"
    /\ UNCHANGED <<run_server, srv_pc, command, result_dict, sent, accepted>>
    /\ slot_by' = accepted
    /\ UNCHANGED <<ui_queue, popped_by>>
    /\ UNCHANGED mainVars
    /\ UNCHANGED <<updVars, queryVars, sortVars>>

\* InvokeOnUiThread returns and the action has not put anything into the
\* slot, the case the default of sticky.pop, lines 749 and 1034, provides
\* for.  The wrapper neither waits for the action nor withdraws it: it stays
\* with the UI thread.
UiNoDeposit ==
    /\ ui_pc = "posted"
    /\ ui_pc' = "not run"
    /\ UNCHANGED <<run_server, srv_pc, command, result_dict, sent, temp_result, deposited,
                   accepted>>
    /\ ui_queue' = ui_queue \cup {[conn |-> accepted, command |-> command]}
    /\ UNCHANGED <<slot_by, popped_by>>
    /\ UNCHANGED mainVars
    /\ UNCHANGED <<updVars, queryVars, sortVars>>

\* lines 743-746 and 1028-1031: the UI thread runs an action whose wrapper
\* has returned; the result goes into the same slot
UiRunLate ==
    /\ \E a \in ui_queue :
         /\ \E r \in UiResults(a.command) : temp_result' = r
         /\ slot_by' = a.conn
         /\ ui_queue' = ui_queue \ {a}
    /\ UNCHANGED <<run_server, srv_pc, command, result_dict, sent, ui_pc, deposited,
                   accepted, popped_by>>
    /\ UNCHANGED mainVars
    /\ UNCHANGED <<updVars, queryVars, sortVars>>

\* lines 749-761 and 1034-1054 inside line 1365: InvokeOnUiThread has
\* returned, the wrapper pops the slot and the dispatcher returns
SrvCollect ==
    /\ srv_pc = "ui_wait"
    /\ ui_pc \in {"ran", "not run"}
    /\ LET r == process_command(doc_wires, doc_bad, command)
       IN  /\ result_dict' = r
           /\ IF r.status = Raised
              THEN /\ srv_pc' = "loop"
                   /\ sent' = Append(sent,
                                [Written(500,
                                    Envelope("error",
                                             "Internal server error processing request.", <<>>),
                                    command, run_server, ui_pc, deposited)
                                 EXCEPT !.popped_by = slot_by])
              ELSE /\ srv_pc' = "send"
                   /\ sent' = sent
    /\ temp_result' = NoResult
    /\ UNCHANGED <<run_server, command, ui_pc, deposited, accepted>>
    /\ popped_by' = slot_by
    /\ slot_by' = 0
    /\ UNCHANGED ui_queue
    /\ UNCHANGED mainVars
    /\ UNCHANGED <<updVars, queryVars, sortVars>>

\* lines 1367-1403: the status line is chosen and the response written
SrvSend ==
    /\ srv_pc = "send"
    /\ sent' = Append(sent, Written(StatusCode(result_dict), result_dict, command,
                                    run_server, ui_pc, deposited))
    /\ srv_pc' = "after send"
    /\ UNCHANGED <<run_server, command, result_dict, temp_result, ui_pc, deposited, accepted>>
    /\ UNCHANGED <<ui_queue, slot_by, popped_by>>
    /\ UNCHANGED mainVars
    /\ UNCHANGED <<updVars, queryVars, sortVars>>

\* lines 1405-1408, 1428-1432: after the write a stop command clears the
\* run flag; the connection is closed
SrvAfterSend ==
    /\ srv_pc = "after send"
    /\ run_server' = IF command.type = "stop" THEN FALSE ELSE run_server
    /\ srv_pc' = "loop"
    /\ UNCHANGED <<command, result_dict, sent, temp_result, ui_pc, deposited, accepted>>
    /\ UNCHANGED <<ui_queue, slot_by, popped_by>>
    /\ UNCHANGED mainVars
    /\ UNCHANGED <<updVars, queryVars, sortVars>>

ServerNext ==
    \/ SrvExit
    \/ SrvAccept
    \/ SrvReadCommand
    \/ SrvReadTimeout
    \/ SrvReadClosed
    \/ SrvOptions
    \/ SrvReadError
    \/ SrvProcess
    \/ SrvInvoke
    \/ UiRun
    \/ UiNoDeposit
    \/ UiRunLate
    \/ SrvCollect
    \/ SrvSend
    \/ SrvAfterSend

(***************************************************************************)
(* Properties of the server thread.                                        *)
(***************************************************************************)
\* the responses written for commands of one type
SentFor(type) == {i \in DOMAIN sent : sent[i].command.type = type}

\* C13: the response to a stop command is written before the run flag is
\* cleared: at the moment the stop response is written the flag is still set.
C13_StopAnsweredBeforeFlagCleared ==
    \A i \in SentFor("stop") : sent[i].run_server

\* the dispatcher has returned, or been left by an exception, for the
\* command of the current connection
Dispatched == result_dict # NoResult

\* C14: the dispatcher is total: whatever the command, it returns an
\* envelope whose status is success or error, error for an unknown type; no
\* command makes an exception leave the dispatcher, and only a stop command
\* ends the accept loop.
C14_DispatcherTotal ==
    /\ Dispatched => result_dict.status \in {"success", "error"}
    /\ (Dispatched /\ command.type = "unknown") => result_dict.status = "error"
    /\ srv_pc = "stopped" => command.type = "stop"

\* a command that lacks its required id field
MissingField(c) ==
    \/ c.type \in {"get_object", "get_objects"} /\ InstanceGuidsOf(c) = {}
    \/ c.type \in {"expire_component", UpdateScript, UpdateCodeRef} /\ c.instance_guid = None

\* a command whose well-formed id names no object of the document
ObjectNotFound(c) ==
    \/ /\ c.type \in {"get_object", "get_objects"}
       /\ InstanceGuidsOf(c) # {}
       /\ InstanceGuidsOf(c) \cap (TopLevel \cup ChildParams) = {}
    \/ /\ c.type \in {"expire_component", UpdateScript, UpdateCodeRef}
       /\ c.instance_guid = GuidMissing

\* the texts of the failures inside the server and on the UI thread
InternalFailureTexts ==
    { "UI thread action failed to execute.",
      "Internal server error processing request.",
      "Error during component update",
      "Error during code reference update",
      "Error updating parameters" }

\* C15: a success envelope is written with 200, a caller error (a required
\* field missing, a requested object not found) with 400, an internal or
\* UI-thread failure with 500 and a read timeout with 408.
C15_StatusCodeMapping ==
    \A i \in DOMAIN sent :
        LET e == sent[i]
        IN  /\ e.body.status = "success" => e.code = 200
            /\ (MissingField(e.command) \/ ObjectNotFound(e.command)) => e.code = 400
            /\ e.body.result \in InternalFailureTexts => e.code = 500
            /\ e.command.type = "<timeout>" => e.code = 408

\* C18: for both update commands the server thread builds its response only
\* when the posted UI action has finished, and when the action did run the
\* response is the result the action deposited, not the fallback.
C18_DepositedResultReturned ==
    /\ (srv_pc \in {"send", "after send"} /\ NeedsUiThread(command)) => ui_pc # "posted"
    /\ \A i \in DOMAIN sent :
          LET e == sent[i]
          IN  (NeedsUiThread(e.command) /\ e.ui = "ran")
                  => /\ e.body.status = e.deposited.status
                     /\ e.body.result = e.deposited.result

\* C29: when update_script_with_code_reference is dispatched for an existing
\* script component and the UI-thread procedure produced status success, the
\* caller receives status success with the procedure's result.
C29_CodeRefEnvelopeReturned ==
    \A i \in SentFor(UpdateCodeRef) :
        LET e == sent[i]
        IN  ( /\ e.command.instance_guid = GuidScript
              /\ e.ui = "ran"
              /\ e.deposited.status = "success" )
            => /\ e.code = 200
               /\ e.body.status = "success"
               /\ e.body.result = e.deposited.result

\* the dispatcher has returned for a stop command and no connection has
\* been accepted since
StopDispatched == command.type = "stop" /\ Dispatched

\* the thread has left socket_server_thread: the listening socket is closed
\* and the run flag is false
ThreadExited == srv_pc = "stopped" /\ ~run_server

\* C30: once a stop command has been dispatched the run flag is cleared, no
\* further connection is accepted and no further command processed, and the
\* server thread eventually exits with the run flag false (the start toggle
\* is not switched: nothing sets the flag again).
C30_StopEndsServer ==
    /\ [](StopDispatched => ~run_server)
    /\ [][StopDispatched => /\ accepted' = accepted
                            /\ command' = command
                            /\ result_dict' = result_dict]_vars
    /\ StopDispatched ~> ThreadExited

\* the thread has exited after answering a stop command although the model
\* would have let it accept another connection
C30_Witness ==
    /\ ThreadExited
    /\ StopDispatched
    /\ accepted < MaxConnections
    /\ sent # <<>>
    /\ sent[Len(sent)].command.type = "stop"
    /\ sent[Len(sent)].code = 200

\* the connection being served has just been ended by a read timeout
TimedOut == srv_pc = "loop" /\ command.type = "<timeout>"

\* C31: a connection whose read times out is answered 408 and nothing else
\* happens for it: no command is dispatched, no UI action posted, the run
\* flag is as it was, and the loop can accept the next connection.
C31_ReadTimeoutIsLocal ==
    /\ TimedOut =>
          /\ sent # <<>>
          /\ sent[Len(sent)].code = 408
          /\ sent[Len(sent)].command = command
          /\ sent[Len(sent)].run_server = run_server
          /\ ~Dispatched
          /\ ui_pc = "none"
          /\ popped_by = 0
          /\ (run_server /\ accepted < MaxConnections) => ENABLED SrvAccept
    /\ \A i \in DOMAIN sent :
          sent[i].code = 408 <=> sent[i].command.type = "<timeout>"

\* after a connection timed out with the server running, the next connection
\* has been accepted and its command read
C31_Witness ==
    /\ accepted = 2
    /\ srv_pc = "process"
    /\ run_server
    /\ Len(sent) = 1
    /\ sent[1].code = 408
    /\ sent[1].command.type = "<timeout>"
    /\ sent[1].run_server

\* C34: commands are processed one at a time: the document work of a
\* command, the action it posted to the UI thread included, is done while
\* the server thread is inside that command's wrapper, before the accept
\* loop goes on to the next request.
C34_CommandsSerialized ==
    slot_by # 0 => (slot_by = accepted /\ srv_pc = "ui_wait")

\* C37: the result slot does not leak across commands: what the wrapper of
\* an update command popped from the slot was put there by the action of
\* that same command.
C37_SlotNeverLeaks ==
    \A i \in DOMAIN sent :
        NeedsUiThread(sent[i].command) => sent[i].popped_by \in {0, sent[i].conn}

(***************************************************************************)
(* The main script, which runs whenever the component is solved, and the   *)
(* server threads it starts.  The threads share sc.sticky["run_server"].   *)
(***************************************************************************)
\* threads that have been started and have not returned
Alive == {t \in Threads : threads[t].at \notin {"unborn", "exited"}}

\* threads inside the while loop of line 1278, their socket listening
InLoop == {t \in Threads : threads[t].at \in {"test", "accept"}}

Unborn == {t \in Threads : threads[t].at = "unborn"}

\* line 1472: the stored object is a thread and isAlive()
server_thread_is_alive == server_thread_obj # 0 /\ server_thread_obj \in Alive

\* the flag has been cleared for the threads that are running
ToldToStop(ths) ==
    [t \in Threads |-> IF t \in Alive THEN [ths[t] EXCEPT !.signal = "told"] ELSE ths[t]]

\* the exit of socket_server_thread, lines 1442-1452; a thread that ends
\* clears the stored object and the flag whoever they belong to
Exits(t) ==
    /\ threads' = [threads EXCEPT ![t].at = "exited"]
    /\ server_thread_obj' = 0
    /\ run_server' = FALSE

ServerThreadIdle ==
    UNCHANGED <<srv_pc, command, result_dict, sent, temp_result, ui_pc, deposited,
                accepted, ui_queue, slot_by, popped_by>>

\* lines 1464-1517: one run of the main script with the toggle at b
MainScript ==
    \E b \in BOOLEAN :
      /\ RunServer' = b
      /\ IF b /\ ~server_is_intended_to_run
         THEN IF server_thread_is_alive
              THEN /\ server_is_intended_to_run' = TRUE
                   /\ UNCHANGED <<run_server, server_thread_obj, threads>>
              ELSE /\ Unborn # {}
                   /\ LET thread == CHOOSE t \in Unborn : \A u \in Unborn : t <= u
                      IN  /\ run_server' = TRUE
                          /\ threads' = [threads EXCEPT ![thread].at = "setup"]
                          /\ server_thread_obj' = thread
                          /\ server_is_intended_to_run' = TRUE
         ELSE IF ~b /\ server_is_intended_to_run
         THEN /\ run_server' = FALSE
              /\ server_is_intended_to_run' = FALSE
              /\ server_thread_obj' = 0
              /\ threads' = ToldToStop(threads)
         ELSE UNCHANGED <<run_server, server_is_intended_to_run, server_thread_obj,
                          threads>>
      /\ ServerThreadIdle
      /\ UNCHANGED <<updVars, queryVars, sortVars>>

\* lines 1270-1276: the listening socket is made; SO_REUSEADDR is set before
\* bind, so bind goes through when no other thread of the script listens
\* on the port
ThreadListens(t) ==
    /\ threads[t].at = "setup"
    /\ threads' = [threads EXCEPT ![t].at = "test"]
    /\ UNCHANGED <<run_server, RunServer, server_is_intended_to_run, server_thread_obj>>
    /\ ServerThreadIdle
    /\ UNCHANGED <<updVars, queryVars, sortVars>>

\* lines 1273, 1437-1452: bind raises because another thread still listens
\* on the port (whether it does depends on what SO_REUSEADDR means on the
\* host); except, then finally
ThreadBindFails(t) ==
    /\ threads[t].at = "setup"
    /\ InLoop # {}
    /\ Exits(t)
    /\ UNCHANGED <<RunServer, server_is_intended_to_run>>
    /\ ServerThreadIdle
    /\ UNCHANGED <<updVars, queryVars, sortVars>>

\* line 1278: the loop test passes; a thread that had been told to stop
\* and finds the flag set again goes on serving
ThreadLoop(t) ==
    /\ threads[t].at = "test"
    /\ run_server
    /\ threads' = [threads EXCEPT ![t].at = "accept",
                                  ![t].signal = IF @ = "told" THEN "revived" ELSE @]
    /\ UNCHANGED <<run_server, RunServer, server_is_intended_to_run, server_thread_obj>>
    /\ ServerThreadIdle
    /\ UNCHANGED <<updVars, queryVars, sortVars>>

\* lines 1278, 1434-1452: the loop test fails and the thread returns
ThreadExit(t) ==
    /\ threads[t].at = "test"
    /\ ~run_server
    /\ Exits(t)
    /\ UNCHANGED <<RunServer, server_is_intended_to_run>>
    /\ ServerThreadIdle
    /\ UNCHANGED <<updVars, queryVars, sortVars>>

\* lines 1281-1432: accept() times out after 1 s, or a connection is served
\* whose command is not stop
ThreadServes(t) ==
    /\ threads[t].at = "accept"
    /\ threads' = [threads EXCEPT ![t].at = "test"]
    /\ UNCHANGED <<run_server, RunServer, server_is_intended_to_run, server_thread_obj>>
    /\ ServerThreadIdle
    /\ UNCHANGED <<updVars, queryVars, sortVars>>

\* lines 1246-1249, 1405-1408: the thread serves a stop command
ThreadServesStop(t) ==
    /\ threads[t].at = "accept"
    /\ run_server' = FALSE
    /\ threads' = [ToldToStop(threads) EXCEPT ![t].at = "test"]
    /\ UNCHANGED <<RunServer, server_is_intended_to_run, server_thread_obj>>
    /\ ServerThreadIdle
    /\ UNCHANGED <<updVars, queryVars, sortVars>>

ToggleNext ==
    \/ MainScript
    \/ \E t \in Threads :
         \/ ThreadListens(t)
         \/ ThreadBindFails(t)
         \/ ThreadLoop(t)
         \/ ThreadExit(t)
         \/ ThreadServes(t)
         \/ ThreadServesStop(t)

\* C38: whatever the sequence of toggle changes, re-runs of the component
\* and stop commands, at most one server thread is in the accept loop, and
\* a thread that was told to stop does not go on serving because the toggle
\* was switched on again.
C38_SingleServerThread ==
    /\ Cardinality(InLoop) <= 1
    /\ \A t \in Threads : threads[t].signal # "revived"

(***************************************************************************)
(* Specifications.                                                         *)
(***************************************************************************)
\* the script component at rest, for the behaviours that do not update it
UpdIdle ==
    /\ canvas = TRUE
    /\ Enabled = TRUE
    /\ Input = <<>>
    /\ Output = <<Param(OutOutput, "output", "output")>>
    /\ wires = {<<OutOutput, Downstream>>}
    /\ comp = [Code |-> "old", Description |-> "old", NickName |-> "old",
               InputIsPath |-> FALSE]
    /\ pc = "idle"
    /\ cmd = Cmd0
    /\ pre = Snapshot
    /\ frame = Frame0

\* a document without wires and no query in progress
QueryIdle ==
    /\ doc_wires = {}
    /\ doc_bad = {}
    /\ request = Request0
    /\ response = Response0

SortNone ==
    /\ graph = <<>>
    /\ SortIdle

\* the update transaction
Init == UpdInit /\ QueryIdle /\ SortNone /\ ServerIdle
Next == UpdNext
Spec == Init /\ [][Next]_vars

\* the object queries
QInit == UpdIdle /\ QueryInit /\ SortNone /\ ServerIdle
QNext == ProcessQuery \/ ProcessContextOnSocketServer
SpecQuery == QInit /\ [][QNext]_vars

\* the sorter
SInit == UpdIdle /\ QueryIdle /\ SortInit /\ ServerIdle
SNext == SortNext
SpecSort == SInit /\ [][SNext]_vars

\* the sorter is one sequential function: a call that has begun runs on
SpecSortFair == SInit /\ [][SNext]_vars /\ WF_vars(SortNext)

\* a document with two wires, served by the socket server thread
ServerDoc ==
    /\ doc_wires = ServerWires
    /\ doc_bad = {}
    /\ request = Request0
    /\ response = Response0

\* the server thread
SrvInit == UpdIdle /\ ServerDoc /\ SortNone /\ ServerInit
SrvNext == ServerNext
SpecServer == SrvInit /\ [][SrvNext]_vars

\* the main script and its threads, from a component that is switched off
TglInit == UpdIdle /\ ServerDoc /\ SortNone /\ ServerIdle
TglNext == ToggleNext
SpecToggle == TglInit /\ [][TglNext]_vars

\* the server thread keeps running: a response that is ready is written
\* (sendall returns or raises within the connection's 15 s timeout), the
\* connection is then closed, and the loop test of line 1278 is evaluated
\* again at the latest when accept() times out after 1 s
SpecServerFair ==
    /\ SrvInit
    /\ [][SrvNext]_vars
    /\ WF_vars(SrvSend)
    /\ WF_vars(SrvAfterSend)
    /\ WF_vars(SrvExit)

====
